---- MODULE Spec2Model ----
(***************************************************************************)
(* The local runtime server: in-memory rooms, the tool gate               *)
(* (POST /rooms/:roomId/tools/:toolName), the per-room event log and the   *)
(* WebSocket broadcasts.                                                   *)
(*                                                                         *)
(* JavaScript runs one callback at a time: a request handler runs without  *)
(* interruption up to its first real suspension.  `await` on the promise   *)
(* of a handler that never suspended resumes in a microtask of the same    *)
(* turn, so such an invocation is one step; a handler that awaits I/O      *)
(* gives the turn away and the rest of the invocation is a later step.     *)
(***************************************************************************)
EXTENDS Integers, Sequences, FiniteSets, TLC

VARIABLES
    now,            \* Date.now()
    experience,     \* the loaded Experience (its manifest id), "null", or a
                    \* loaded module that lacks its tools or its manifest
    rooms,          \* keys of the `rooms` map
    sharedState,    \* room.sharedState, per room
    participants,   \* room.participants (a Map, in insertion order), per room
    events,         \* room.events, per room
    actorCounters,  \* room.actorCounters, per room
    wsConnections,  \* room.wsConnections, per room
    sockets,        \* every WebSocket accepted so far: readyState, the
                    \* connection handler's joinedRoom, the frames it received
    calls,          \* every tool request received so far, in order of arrival:
                    \* its arguments, the suspended handler if any, its response
    tally,          \* per room, how many events were ever pushed to the log
                    \* and how many invocations succeeded
    issued,         \* per room, every actor id assignActorId returned, in order
    watchers,       \* every GET /rooms/:roomId/events received so far: its
                    \* query, its interval timer, its response
    poller,         \* a client of the events endpoint: its cursor and the
                    \* events it was given
    agentMemory,    \* the agentMemory Map: key -> record
    agent,          \* the MCP server's session: currentRoomId,
                    \* currentActorId, and the tool calls it has answered
    replies         \* what the server answered to requests that are neither
                    \* tool calls nor watches (snapshot, list, memory, sync),
                    \* and what a reload it started itself wrote to the console

vars == <<now, experience, rooms, sharedState, participants, events,
          actorCounters, wsConnections, sockets, calls, tally, issued,
          watchers, poller, agentMemory, agent, replies>>

----------------------------------------------------------------------------
(* Bounds of the model *)

MaxCalls == 2       \* tool requests received
MaxTicks == 1       \* milliseconds that pass
MaxPreload == 1     \* how far below the cap a preloaded log may start
MaxPolls == 1       \* timer periods that pass besides the longest timeout
MaxIssued == 3      \* actor ids allocated per room
MaxWatchers == 2    \* events requests received

(* Program constants *)

EVENT_CAP == 200        \* room.events is cut to its last 200 entries
JOIN_EVENTS == 20       \* a join answers with events.slice(-20)
RECENT_CAP == 20        \* recentPlacements.slice(0, 20)
GRID_MAX == 63          \* z.number().int().min(0).max(63)

RoomIds == {"r1", "r2"}
WsIds == {"w1", "w2"}

\* Ids are handed out in this order: generateId and the WebSocket server
\* return a fresh one each time, and which one is immaterial
IdOrder == <<"r1", "r2", "w1", "w2">>
Fresh(ids, used) ==
    {x \in ids \ used :
        \A y \in ids \ used :
            (CHOOSE i \in 1..Len(IdOrder) : IdOrder[i] = x)
               <= (CHOOSE i \in 1..Len(IdOrder) : IdOrder[i] = y)}
NoRoom == "null"

----------------------------------------------------------------------------
(* Values *)

EmptyObject == << >>

\* { ...a, ...b }
Spread(a, b) == b @@ a

Min(a, b) == IF a < b THEN a ELSE b

Last(s) == s[Len(s)]

\* s.slice(-n)
SliceLast(s, n) == IF Len(s) <= n THEN s ELSE SubSeq(s, Len(s) - n + 1, Len(s))

\* s.slice(0, n)
SliceFirst(s, n) == SubSeq(s, 1, Min(Len(s), n))

\* Map.set(k, v) on a Map kept as the list of its entries in insertion order
MapSet(m, k, v) ==
    IF \E i \in 1..Len(m) : m[i].key = k
    THEN [i \in 1..Len(m) |-> IF m[i].key = k THEN [key |-> k, value |-> v] ELSE m[i]]
    ELSE Append(m, [key |-> k, value |-> v])

\* Map.delete(k)
MapDelete(m, k) == SelectSeq(m, LAMBDA e : e.key # k)

\* Array.from(map.keys())
MapKeys(m) == [i \in 1..Len(m) |-> m[i].key]

\* An actor id is the text `username-type-ordinal`.  It is kept as the list of
\* its pieces between the "-" separators, so actorId.split("-") is the list
\* itself and a username holding a "-" is a list of several pieces.
Numeral(n) == <<"1", "2", "3", "4", "5", "6", "7", "8", "9">>[n]

UsernamePieces(username) ==
    IF username = "sam-human" THEN <<"sam", "human">> ELSE <<username>>

\* A property the request body does not carry, and a destructuring default
Undefined == "undefined"
Default(v, d) == IF v = Undefined THEN d ELSE v

----------------------------------------------------------------------------
(* The Experience: an ordered tool table.  counter.* is the template       *)
(* experience, pixel.place the pixel canvas.  The runtime calls whatever   *)
(* handler the table holds, so the table also holds three handlers written *)
(* against the same ToolCtx that await I/O or throw, which the shipped     *)
(* tools never do, and one that uses ctx.memory and ctx.setMemory.  The    *)
(* other three tools of the pixel canvas close the table.                  *)

ToolTable ==
    << "counter.increment", "counter.decrement", "counter.reset", "pixel.place",
       "slow.increment", "notify.increment", "fail.increment",
       "remember.visit",
       "pixel.place_batch", "pixel.get_region", "pixel.clear" >>

\* Whether some tool of the table has the name
InTable(toolName) == \E i \in 1..Len(ToolTable) : ToolTable[i] = toolName

\* A lookup that falls back to the first tool instead of undefined
FindToolOrFirst(toolName) ==
    IF \E i \in 1..Len(ToolTable) : ToolTable[i] = toolName
    THEN CHOOSE i \in 1..Len(ToolTable) : ToolTable[i] = toolName
    ELSE 1

\* experience.tools.find((t) => t.name === toolName): its index, 0 for undefined
FindTool(toolName) ==
    IF \E i \in 1..Len(ToolTable) : ToolTable[i] = toolName
    THEN CHOOSE i \in 1..Len(ToolTable) :
            /\ ToolTable[i] = toolName
            /\ \A j \in 1..(i - 1) : ToolTable[j] # toolName
    ELSE 0

HexColors == {"#ff0000", "#00ff00"}

\* The keys the tool's z.object declares
SchemaKeys(toolName) ==
    CASE toolName = "pixel.place" -> {"x", "y", "color"}
      [] toolName = "pixel.place_batch" -> {"placements"}
      [] toolName = "pixel.get_region" -> {"x1", "y1", "x2", "y2"}
      [] OTHER -> {}

\* .max(50) of the placements array
BATCH_MAX == 50

\* One element of the placements array passes its z.object
PlacementAccepted(p) ==
    /\ {"x", "y", "color"} \subseteq DOMAIN p
    /\ p.x \in 0..GRID_MAX
    /\ p.y \in 0..GRID_MAX
    /\ p.color \in HexColors

\* Whether tool.input_schema.parse(input) returns instead of throwing
SchemaAccepts(toolName, input) ==
    IF toolName = "pixel.place"
    THEN /\ {"x", "y", "color"} \subseteq DOMAIN input
         /\ input.x \in 0..GRID_MAX
         /\ input.y \in 0..GRID_MAX
         /\ input.color \in HexColors
    ELSE IF toolName = "pixel.place_batch"
    THEN /\ "placements" \in DOMAIN input
         /\ Len(input.placements) \in 1..BATCH_MAX
         /\ \A k \in 1..Len(input.placements) :
                PlacementAccepted(input.placements[k])
    ELSE IF toolName = "pixel.get_region"
    THEN /\ {"x1", "y1", "x2", "y2"} \subseteq DOMAIN input
         /\ \A k \in {"x1", "y1", "x2", "y2"} : input[k] \in 0..GRID_MAX
    ELSE TRUE

\* What parse returns: z.object strips the keys it does not declare
SchemaParse(toolName, input) ==
    IF toolName = "pixel.place_batch"
    THEN [placements |->
             [k \in 1..Len(input.placements) |->
                 [f \in {"x", "y", "color"} |-> input.placements[k][f]]]]
    ELSE [k \in DOMAIN input \cap SchemaKeys(toolName) |-> input[k]]

ZodMessage == "ZodError"
HandlerMessage == "boom"

\* ctx.state.count ?? 0
Count(state) == IF "count" \in DOMAIN state THEN state.count ELSE 0

\* ctx.state.pixels || {}
Pixels(state) == IF "pixels" \in DOMAIN state THEN state.pixels ELSE EmptyObject

\* ctx.state.recentPlacements || []
RecentPlacements(state) ==
    IF "recentPlacements" \in DOMAIN state THEN state.recentPlacements ELSE << >>

Returns(sets, value) == [sets |-> sets, kind |-> "return", value |-> value]
Awaits(sets) == [sets |-> sets, kind |-> "await", value |-> EmptyObject]
Throws(sets, message) == [sets |-> sets, kind |-> "throw", value |-> message]

\* What the handler passed to ctx.setMemory, call by call
MemoryUpdates(run) == IF "mems" \in DOMAIN run THEN run.mems ELSE << >>

CounterIncrement(ctx) ==
    LET next == Count(ctx.state) + 1
    IN  Returns(<<Spread(ctx.state, [count |-> next])>>, [count |-> next])

\* A decrement that stops at zero
CounterDecrementClamped(ctx) ==
    LET next == IF Count(ctx.state) > 0 THEN Count(ctx.state) - 1 ELSE 0
    IN  Returns(<<Spread(ctx.state, [count |-> next])>>, [count |-> next])

CounterDecrement(ctx) ==
    LET next == Count(ctx.state) - 1
    IN  Returns(<<Spread(ctx.state, [count |-> next])>>, [count |-> next])

CounterReset(ctx) ==
    Returns(<<Spread(ctx.state, [count |-> 0])>>, [count |-> 0])

PixelPlace(ctx, input) ==
    LET key == <<input.x, input.y>>
        pixels == Spread(Pixels(ctx.state), key :> input.color)
        placement == [x |-> input.x, y |-> input.y, color |-> input.color,
                      actor |-> ctx.actorId, ts |-> ctx.timestamp]
        recent == SliceFirst(<<placement>> \o RecentPlacements(ctx.state), RECENT_CAP)
    IN  Returns(<<Spread(ctx.state, [pixels |-> pixels,
                                     recentPlacements |-> recent,
                                     pixelCount |-> Cardinality(DOMAIN pixels)])>>,
                [placed |-> key, color |-> input.color,
                 totalPixels |-> Cardinality(DOMAIN pixels)])

\* for (const p of input.placements) pixels[key] = p.color: the first n
\* placements written over `pixels`, a later one over an earlier one
RECURSIVE PlaceAll(_, _, _)
PlaceAll(pixels, placements, n) ==
    IF n = 0 THEN pixels
    ELSE Spread(PlaceAll(pixels, placements, n - 1),
                <<placements[n].x, placements[n].y>> :> placements[n].color)

PixelPlaceBatch(ctx, input) ==
    LET n == Len(input.placements)
        pixels == PlaceAll(Pixels(ctx.state), input.placements, n)
        newRecent == [k \in 1..n |->
                         [x |-> input.placements[k].x, y |-> input.placements[k].y,
                          color |-> input.placements[k].color,
                          actor |-> ctx.actorId, ts |-> ctx.timestamp]]
        recent == SliceFirst(newRecent \o RecentPlacements(ctx.state), RECENT_CAP)
    IN  Returns(<<Spread(ctx.state, [pixels |-> pixels,
                                     recentPlacements |-> recent,
                                     pixelCount |-> Cardinality(DOMAIN pixels)])>>,
                [placed |-> n, totalPixels |-> Cardinality(DOMAIN pixels)])

\* The cells of the rectangle that hold a colour, and the three counts
RegionOutput(pixels, input) ==
    LET region == [key \in {k \in DOMAIN pixels :
                                /\ k[1] \in input.x1..input.x2
                                /\ k[2] \in input.y1..input.y2} |-> pixels[key]]
    IN  [region |-> region,
         filledCount |-> Cardinality(DOMAIN region),
         totalInRegion |-> (input.x2 - input.x1 + 1) * (input.y2 - input.y1 + 1)]

\* A read that also keeps what it read in the shared state
PixelGetRegionCached(ctx, input) ==
    LET out == RegionOutput(Pixels(ctx.state), input)
    IN  Returns(<<Spread(ctx.state, [lastRegion |-> out.region])>>, out)

\* never calls ctx.setState
PixelGetRegion(ctx, input) ==
    Returns(<< >>, RegionOutput(Pixels(ctx.state), input))

\* A clear that forgets to reset the count
PixelClearKeepsCount(ctx) ==
    Returns(<<Spread(ctx.state, [pixels |-> EmptyObject,
                                 recentPlacements |-> << >>])>>,
            [cleared |-> TRUE])

PixelClear(ctx) ==
    Returns(<<Spread(ctx.state, [pixels |-> EmptyObject,
                                 recentPlacements |-> << >>,
                                 pixelCount |-> 0])>>,
            [cleared |-> TRUE])

\* awaits I/O, then increments from ctx.state
SlowIncrement(seg, ctx) ==
    IF seg = 1 THEN Awaits(<< >>) ELSE CounterIncrement(ctx)

\* increments from ctx.state, awaits I/O, then returns
NotifyIncrement(seg, ctx) ==
    LET next == Count(ctx.state) + 1
    IN  IF seg = 1
        THEN Awaits(<<Spread(ctx.state, [count |-> next])>>)
        ELSE Returns(<< >>, [count |-> next])

\* increments from ctx.state, then throws
FailIncrement(ctx) ==
    Throws(<<Spread(ctx.state, [count |-> Count(ctx.state) + 1])>>, HandlerMessage)

\* ctx.memory.visits ?? 0
Visits(memory) == IF "visits" \in DOMAIN memory THEN memory.visits ELSE 0

\* counts the actor's calls in its memory: setMemory({ visits }), no setState
RememberVisit(ctx) ==
    LET next == Visits(ctx.memory) + 1
    IN  [sets |-> << >>, kind |-> "return", value |-> [visits |-> next],
         mems |-> <<[visits |-> next]>>]

\* tool.handler(ctx, validatedInput), from its seg-th resumption to the next
\* await, return or throw: the values it passes to setState on the way, in
\* order, and how the stretch ends
Handler(toolName, seg, ctx, input) ==
    CASE toolName = "counter.increment" -> CounterIncrement(ctx)
      [] toolName = "counter.decrement" -> CounterDecrement(ctx)
      [] toolName = "counter.reset" -> CounterReset(ctx)
      [] toolName = "pixel.place" -> PixelPlace(ctx, input)
      [] toolName = "slow.increment" -> SlowIncrement(seg, ctx)
      [] toolName = "notify.increment" -> NotifyIncrement(seg, ctx)
      [] toolName = "fail.increment" -> FailIncrement(ctx)
      [] toolName = "remember.visit" -> RememberVisit(ctx)
      [] toolName = "pixel.place_batch" -> PixelPlaceBatch(ctx, input)
      [] toolName = "pixel.get_region" -> PixelGetRegion(ctx, input)
      [] toolName = "pixel.clear" -> PixelClear(ctx)

----------------------------------------------------------------------------
(* Helpers of the server *)

\* assignActorId: the counter after the call, and the id returned
ActorPrefix(username, type) == UsernamePieces(username) \o <<type>>

\* One counter for the whole room, whatever the prefix
CounterOfAny(counters, prefix) ==
    IF DOMAIN counters = {} THEN 0
    ELSE CHOOSE n \in {counters[p] : p \in DOMAIN counters} :
             \A p \in DOMAIN counters : counters[p] <= n

CounterOf(counters, prefix) ==
    IF prefix \in DOMAIN counters THEN counters[prefix] ELSE 0

assignActorId(counters, username, type) ==
    LET prefix == ActorPrefix(username, type)
        next == CounterOf(counters, prefix) + 1
    IN  [counters |-> (prefix :> next) @@ counters,
         actorId |-> prefix \o <<Numeral(next)>>]

\* A broadcast to every open socket, whatever room it joined
broadcastToEveryone(conns, socks, message) ==
    [w \in DOMAIN socks |->
        IF socks[w].readyState = "OPEN"
        THEN [socks[w] EXCEPT !.inbox = Append(@, message)]
        ELSE socks[w]]

\* broadcastToRoom: the sockets after every OPEN connection of the room's
\* set was sent the message
broadcastToRoom(conns, socks, message) ==
    [w \in DOMAIN socks |->
        IF w \in conns /\ socks[w].readyState = "OPEN"
        THEN [socks[w] EXCEPT !.inbox = Append(@, message)]
        ELSE socks[w]]

\* A cap that keeps the oldest entries: slice(0, 200)
PushCappedKeepsOldest(log, event) ==
    LET pushed == Append(log, event)
    IN  IF Len(pushed) > EVENT_CAP THEN SliceFirst(pushed, EVENT_CAP) ELSE pushed

\* room.events.push(event); if (room.events.length > 200) slice(-200)
PushCapped(log, event) ==
    LET pushed == Append(log, event)
    IN  IF Len(pushed) > EVENT_CAP THEN SliceLast(pushed, EVENT_CAP) ELSE pushed

\* room.events.push(event) of the catch block
PushFailure(log, event) == Append(log, event)

\* const getNewEvents = () => room.events.filter((e) => e.ts > since)
getNewEvents(log, since) == SelectSeq(log, LAMBDA e : e.ts > since)

\* The immediate answer of GET /rooms/:roomId/events (lines 317-324)
EventsResponse(r, since) ==
    [events |-> getNewEvents(events[r], since),
     sharedState |-> sharedState[r],
     participants |-> MapKeys(participants[r])]

\* owner || actorId.split("-")[0]
\* A ctx.owner without the fallback to the actor's username
CtxOwnerSupplied(owner, actorId) == owner

CtxOwner(owner, actorId) == IF owner # "" THEN owner ELSE actorId[1]

----------------------------------------------------------------------------
(* Initial state: the server is listening, the Experience is loaded, no    *)
(* room exists.                                                            *)

ExperienceId == "my-experience"

\* What loadExperience can leave in `experience` besides a whole Experience:
\* a module without tools, a module without manifest
NoTools == "noTools"
NoManifest == "noManifest"

\* !experience
Falsy(e) == e = "null"

\* experience.tools and experience.manifest are there
HasTools(e) == e \in {ExperienceId, NoManifest}
HasManifest(e) == e \in {ExperienceId, NoTools}

\* The MCP server before its room tool was used (mcp.ts lines 16-17);
\* results: what its tools returned, in order.  No watch call is under way.
NoWatch == [phase |-> "idle"]
NewAgent ==
    [currentRoomId |-> "null", currentActorId |-> "null", results |-> << >>,
     watch |-> NoWatch,    \* the watch tool call that has not returned yet
     opening |-> "null"]   \* the room `room open` created and has yet to join

\* A client of the events endpoint that has not queried yet
NewPoller == [cursor |-> 0, seen |-> << >>]

Init ==
    /\ now = 1
    /\ experience = ExperienceId
    /\ rooms = {}
    /\ sharedState = << >>
    /\ participants = << >>
    /\ events = << >>
    /\ actorCounters = << >>
    /\ wsConnections = << >>
    /\ sockets = << >>
    /\ calls = << >>
    /\ tally = << >>
    /\ issued = << >>
    /\ watchers = << >>
    /\ poller = NewPoller
    /\ agentMemory = << >>
    /\ agent = NewAgent
    /\ replies = << >>

\* `${room.experienceId}:${actorId}`, kept as the list of its pieces between
\* the ":" separators
MemoryKey(experienceId, actorId) == <<experienceId, actorId>>

\* agentMemory.get(key) || {}
MemoryOf(memory, key) ==
    IF \E i \in 1..Len(memory) : memory[i].key = key
    THEN memory[CHOOSE i \in 1..Len(memory) : memory[i].key = key].value
    ELSE EmptyObject

\* A merge that keeps nothing of the current value
MemoryReplace(current, updates) == updates

\* { ...current, ...updates }
MemoryMerge(current, updates) == Spread(current, updates)

\* agentMemory.set(key, { ...current, ...updates })
setMemory(memory, key, updates) ==
    MapSet(memory, key, MemoryMerge(MemoryOf(memory, key), updates))

\* The setMemory calls of one stretch of a handler, in order
RECURSIVE setMemoryAll(_, _, _)
setMemoryAll(memory, key, mems) ==
    IF mems = << >> THEN memory
    ELSE setMemoryAll(setMemory(memory, key, mems[1]), key, Tail(mems))

\* Time passes
Tick ==
    /\ now < 1 + MaxTicks
    /\ now' = now + 1
    /\ UNCHANGED <<agentMemory, agent, replies, issued, watchers, poller, experience, rooms, sharedState, participants, events,
                   actorCounters, wsConnections, sockets, calls, tally>>

\* POST /rooms: what the handler does, whoever sent the request
PostRooms(roomId) ==
    /\ HasManifest(experience)
    /\ roomId \in Fresh(RoomIds, rooms)
    /\ rooms' = rooms \cup {roomId}
    /\ sharedState' = (roomId :> EmptyObject) @@ sharedState
    /\ participants' = (roomId :> << >>) @@ participants
    /\ events' = (roomId :> << >>) @@ events
    /\ actorCounters' = (roomId :> << >>) @@ actorCounters
    /\ wsConnections' = (roomId :> {}) @@ wsConnections
    /\ tally' = (roomId :> [pushed |-> 0, succeeded |-> 0]) @@ tally
    /\ issued' = (roomId :> << >>) @@ issued
    /\ UNCHANGED <<agentMemory, replies, watchers, poller, now, experience, sockets, calls>>

\* POST /rooms sent by a client other than the agent
CreateRoom(roomId) == PostRooms(roomId) /\ UNCHANGED agent

----------------------------------------------------------------------------
(* The tool gate: POST /rooms/:roomId/tools/:toolName *)

\* The record kept of a request when it arrives
NewCall(roomId, toolName, actorId, input, owner) ==
    [roomId |-> roomId, toolName |-> toolName, actorId |-> actorId,
     input |-> input, owner |-> owner,
     status |-> 0,                 \* 0 until res.json / res.status(..).json
     body |-> EmptyObject,         \* the JSON answered
     tool |-> 0,                   \* the table entry found, 0 for undefined
     handlerCalls |-> 0,           \* how often tool.handler was called
     seg |-> 0,                    \* stretches of the handler already run
     ctx |-> EmptyObject,          \* the ToolCtx, once built
     validatedInput |-> EmptyObject,
     setStates |-> << >>,          \* every value the handler passed to setState
     eventIds |-> << >>]           \* the events this request pushed

PutCall(q, c) == IF q = Len(calls) + 1 THEN Append(calls, c) ELSE [calls EXCEPT ![q] = c]

\* An early return that also records a failure event when the room exists
RejectRecorded(q, c, status, message) ==
    LET r == c.roomId
        event == [id |-> tally[r].pushed + 1, ts |-> now, actorId |-> c.actorId,
                  tool |-> c.toolName, input |-> c.input, error |-> message]
    IN  /\ calls' = PutCall(q, [c EXCEPT !.status = status, !.body = [error |-> message]])
        /\ events' = IF r \in rooms
                      THEN [events EXCEPT ![r] = Append(@, event)] ELSE events
        /\ tally' = IF r \in rooms
                     THEN [tally EXCEPT ![r].pushed = @ + 1] ELSE tally
        /\ UNCHANGED <<agentMemory, agent, replies, issued, watchers, poller, now, experience, rooms, sharedState, participants,
                       actorCounters, wsConnections, sockets>>

\* res.status(status).json({ error }) before the try block is entered
Reject(q, c, status, message) ==
    /\ calls' = PutCall(q, [c EXCEPT !.status = status, !.body = [error |-> message]])
    /\ UNCHANGED <<agentMemory, agent, replies, issued, watchers, poller, now, experience, rooms, sharedState, participants, events,
                   actorCounters, wsConnections, sockets, tally>>

\* The handler awaits: the request stays open; what it passed to setState so
\* far is already in room.sharedState
Suspend(q, c, state) ==
    /\ calls' = PutCall(q, c)
    /\ sharedState' = [sharedState EXCEPT ![c.roomId] = state]
    /\ UNCHANGED <<agent, replies, issued, watchers, poller, now, experience, rooms, participants, events,
                   actorCounters, wsConnections, sockets, tally>>

\* Lines 264-291: the handler returned
\* An event stamped with the time its context was built
EventTsAtStart(c) == c.ctx.timestamp

\* ts: Date.now() when the event is created, after the handler returned.
\* Date.now() is taken not to step back.
EventTs(c) == now

Succeed(q, c, state, output) ==
    LET r == c.roomId
        event == [id |-> tally[r].pushed + 1, ts |-> EventTs(c),
                  actorId |-> c.actorId,
                  owner |-> c.ctx.owner, tool |-> c.toolName,
                  input |-> c.validatedInput, output |-> output]
    IN  /\ sharedState' = [sharedState EXCEPT ![r] = state]
        /\ events' = [events EXCEPT ![r] = PushCapped(@, event)]
        /\ tally' = [tally EXCEPT ![r].pushed = @ + 1, ![r].succeeded = @ + 1]
        /\ sockets' = broadcastToRoom(wsConnections[r], sockets,
                          [type |-> "shared_state_update", roomId |-> r,
                           state |-> state, event |-> event,
                           changedBy |-> c.actorId, tool |-> c.toolName])
        /\ calls' = PutCall(q, [c EXCEPT !.status = 200,
                                         !.body = [output |-> output],
                                         !.eventIds = Append(@, event.id)])
        /\ UNCHANGED <<agent, replies, issued, watchers, poller, now, experience, rooms, participants, actorCounters,
                       wsConnections>>

\* A catch block that also tells the room's sockets
CatchBroadcasts(q, c, state, errorMsg) ==
    LET r == c.roomId
        event == [id |-> tally[r].pushed + 1, ts |-> now, actorId |-> c.actorId,
                  tool |-> c.toolName, input |-> c.input, error |-> errorMsg]
    IN  /\ sharedState' = [sharedState EXCEPT ![r] = state]
        /\ events' = [events EXCEPT ![r] = Append(@, event)]
        /\ tally' = [tally EXCEPT ![r].pushed = @ + 1]
        /\ sockets' = broadcastToRoom(wsConnections[r], sockets,
                          [type |-> "shared_state_update", roomId |-> r,
                           state |-> state, event |-> event,
                           changedBy |-> c.actorId, tool |-> c.toolName])
        /\ calls' = PutCall(q, [c EXCEPT !.status = 400,
                                         !.body = [error |-> errorMsg],
                                         !.eventIds = Append(@, event.id)])
        /\ UNCHANGED <<agent, replies, issued, watchers, poller, now, experience, rooms, participants, actorCounters,
                       wsConnections>>

\* A catch block that answers the caller and records nothing
CatchUnrecorded(q, c, state, errorMsg) ==
    /\ sharedState' = [sharedState EXCEPT ![c.roomId] = state]
    /\ calls' = PutCall(q, [c EXCEPT !.status = 400, !.body = [error |-> errorMsg]])
    /\ UNCHANGED <<agent, replies, issued, watchers, poller, now, experience, rooms, participants, events, actorCounters,
                   wsConnections, sockets, tally>>

\* A catch block whose event also carries an output
CatchWithOutput(q, c, state, errorMsg) ==
    LET r == c.roomId
        event == [id |-> tally[r].pushed + 1, ts |-> now, actorId |-> c.actorId,
                  tool |-> c.toolName, input |-> c.input, error |-> errorMsg,
                  output |-> EmptyObject]
    IN  /\ sharedState' = [sharedState EXCEPT ![r] = state]
        /\ events' = [events EXCEPT ![r] = PushFailure(@, event)]
        /\ tally' = [tally EXCEPT ![r].pushed = @ + 1]
        /\ calls' = PutCall(q, [c EXCEPT !.status = 400,
                                         !.body = [error |-> errorMsg],
                                         !.eventIds = Append(@, event.id)])
        /\ UNCHANGED <<agent, replies, issued, watchers, poller, now,
                       experience, rooms, participants, actorCounters,
                       wsConnections, sockets>>

\* Lines 292-304: the catch block, entered when parse or the handler threw
Catch(q, c, state, errorMsg) ==
    LET r == c.roomId
        event == [id |-> tally[r].pushed + 1, ts |-> now, actorId |-> c.actorId,
                  tool |-> c.toolName, input |-> c.input, error |-> errorMsg]
    IN  /\ sharedState' = [sharedState EXCEPT ![r] = state]
        /\ events' = [events EXCEPT ![r] = PushFailure(@, event)]
        /\ tally' = [tally EXCEPT ![r].pushed = @ + 1]
        /\ calls' = PutCall(q, [c EXCEPT !.status = 400,
                                         !.body = [error |-> errorMsg],
                                         !.eventIds = Append(@, event.id)])
        /\ UNCHANGED <<agent, replies, issued, watchers, poller, now, experience, rooms, participants, actorCounters,
                       wsConnections, sockets>>

\* await tool.handler(ctx, validatedInput): the handler's next stretch, and
\* what the gate does when it ends
RunHandler(q, c) ==
    LET run == Handler(ToolTable[c.tool], c.seg + 1, c.ctx, c.validatedInput)
        state == IF run.sets = << >> THEN sharedState[c.roomId] ELSE Last(run.sets)
        c1 == [c EXCEPT !.seg = @ + 1,
                        !.handlerCalls = IF c.seg = 0 THEN 1 ELSE @,
                        !.setStates = @ \o run.sets]
    IN  /\ agentMemory' = setMemoryAll(agentMemory,
                                        MemoryKey(ExperienceId, c.actorId),
                                        MemoryUpdates(run))
        /\ CASE run.kind = "await" -> Suspend(q, c1, state)
              [] run.kind = "return" -> Succeed(q, c1, state, run.value)
              [] run.kind = "throw" -> Catch(q, c1, state, run.value)

\* The ToolCtx of lines 244-259
BuildCtx(c) ==
    [roomId |-> c.roomId, actorId |-> c.actorId,
     owner |-> CtxOwner(c.owner, c.actorId),
     state |-> sharedState[c.roomId], timestamp |-> now,
     memory |-> MemoryOf(agentMemory, MemoryKey(ExperienceId, c.actorId))]

\* A request arrives and runs up to the handler's first await, or to its answer
ExecuteTool(roomId, toolName, actorId, input, owner) ==
    LET q == Len(calls) + 1
        c == NewCall(roomId, toolName, actorId, input, owner)
    IN  /\ Len(calls) < MaxCalls
        /\ IF roomId \notin rooms THEN Reject(q, c, 404, "Room not found")
           ELSE IF Falsy(experience) THEN Reject(q, c, 500, "Experience not loaded")
           ELSE IF ~HasTools(experience)
                THEN \* experience.tools.find throws in the async handler, outside
                     \* its try block: the framework answers 500 or never answers
                     \E status \in {0, 500} : Reject(q, c, status, "TypeError")
           ELSE IF FindTool(toolName) = 0 THEN Reject(q, c, 404, "Tool not found")
           ELSE LET tool == ToolTable[FindTool(toolName)]
                    t == [c EXCEPT !.tool = FindTool(toolName)]
                IN  IF ~SchemaAccepts(tool, input)
                    THEN Catch(q, t, sharedState[roomId], ZodMessage)
                         /\ UNCHANGED agentMemory
                    ELSE LET v == [t EXCEPT !.validatedInput = SchemaParse(tool, input)]
                         IN  RunHandler(q, [v EXCEPT !.ctx = BuildCtx(v)])

\* The I/O a suspended handler awaits completes
ResumeHandler(q) ==
    /\ q \in 1..Len(calls)
    /\ calls[q].status = 0
    /\ calls[q].handlerCalls > 0
    /\ RunHandler(q, calls[q])

\* Whether call q is in flight: its handler was called and the request has
\* not been answered
InFlight(q) == calls[q].handlerCalls > 0 /\ calls[q].status = 0

----------------------------------------------------------------------------
(* The push channel: wss.on("connection") *)

WsConnect(w) ==
    /\ w \in Fresh(WsIds, DOMAIN sockets)
    /\ sockets' = (w :> [readyState |-> "OPEN", joinedRoom |-> NoRoom,
                         inbox |-> << >>]) @@ sockets
    /\ UNCHANGED <<agentMemory, agent, replies, issued, watchers, poller, now, experience, rooms, sharedState, participants, events,
                   actorCounters, wsConnections, calls, tally>>

\* A push join that counts on its own, apart from the room's counters
WsJoinOwnCounter(w, roomId, username) ==
    /\ w \in DOMAIN sockets
    /\ sockets[w].readyState = "OPEN"
    /\ roomId \in rooms
    /\ LET name == IF username = "" THEN "viewer" ELSE username
           a == assignActorId(<< >>, name, "human")
           conns == wsConnections[roomId] \cup {w}
           members == MapSet(participants[roomId], a.actorId,
                             [type |-> "human", joinedAt |-> now])
           joined == [type |-> "joined", roomId |-> roomId, actorId |-> a.actorId,
                      sharedState |-> sharedState[roomId],
                      participants |-> MapKeys(members),
                      events |-> SliceLast(events[roomId], JOIN_EVENTS)]
           sent == [sockets EXCEPT ![w].joinedRoom = roomId,
                                   ![w].inbox = Append(@, joined)]
       IN  /\ wsConnections' = [wsConnections EXCEPT ![roomId] = conns]
           /\ issued' = [issued EXCEPT ![roomId] =
                             Append(@, [username |-> name, type |-> "human",
                                        actorId |-> a.actorId, via |-> "ws"])]
           /\ participants' = [participants EXCEPT ![roomId] = members]
           /\ sockets' = broadcastToRoom(conns, sent,
                             [type |-> "presence_update",
                              participants |-> MapKeys(members)])
    /\ UNCHANGED <<agentMemory, agent, replies, watchers, poller, now, experience, rooms, sharedState, events,
                   actorCounters, calls, tally>>

\* ws.on("message") with { type: "join", roomId, username }
WsJoin(w, roomId, username) ==
    /\ w \in DOMAIN sockets
    /\ sockets[w].readyState = "OPEN"
    /\ roomId \in rooms
    /\ LET name == IF username = "" THEN "viewer" ELSE username
           a == assignActorId(actorCounters[roomId], name, "human")
           conns == wsConnections[roomId] \cup {w}
           members == MapSet(participants[roomId], a.actorId,
                             [type |-> "human", joinedAt |-> now])
           joined == [type |-> "joined", roomId |-> roomId, actorId |-> a.actorId,
                      sharedState |-> sharedState[roomId],
                      participants |-> MapKeys(members),
                      events |-> SliceLast(events[roomId], JOIN_EVENTS)]
           sent == [sockets EXCEPT ![w].joinedRoom = roomId,
                                   ![w].inbox = Append(@, joined)]
       IN  /\ wsConnections' = [wsConnections EXCEPT ![roomId] = conns]
           /\ actorCounters' = [actorCounters EXCEPT ![roomId] = a.counters]
           /\ issued' = [issued EXCEPT ![roomId] =
                             Append(@, [username |-> name, type |-> "human",
                                        actorId |-> a.actorId, via |-> "ws"])]
           /\ participants' = [participants EXCEPT ![roomId] = members]
           /\ sockets' = broadcastToRoom(conns, sent,
                             [type |-> "presence_update",
                              participants |-> MapKeys(members)])
    /\ UNCHANGED <<agentMemory, agent, replies, watchers, poller, now, experience, rooms, sharedState, events,
                   calls, tally>>

\* ws.on("close")
WsClose(w) ==
    /\ w \in DOMAIN sockets
    /\ sockets[w].readyState = "OPEN"
    /\ sockets' = [sockets EXCEPT ![w].readyState = "CLOSED"]
    /\ wsConnections' =
          IF sockets[w].joinedRoom # NoRoom
          THEN [wsConnections EXCEPT ![sockets[w].joinedRoom] = @ \ {w}]
          ELSE wsConnections
    /\ UNCHANGED <<agentMemory, agent, replies, issued, watchers, poller, now, experience, rooms, sharedState, participants, events,
                   actorCounters, calls, tally>>

----------------------------------------------------------------------------
(* POST /rooms/:roomId/join and POST /rooms/:roomId/leave.  Neither handler *)
(* awaits, so each is one step.  A request for a room that does not exist  *)
(* is answered 404 before anything is read or written.                     *)

\* A join that also records itself in the room's log
HttpJoinLogged(roomId, username, actorType) ==
    /\ roomId \in rooms
    /\ LET name == Default(username, "user")
           type == Default(actorType, "human")
           a == assignActorId(actorCounters[roomId], name, type)
           members == MapSet(participants[roomId], a.actorId,
                             [type |-> type, joinedAt |-> now])
       IN  /\ actorCounters' = [actorCounters EXCEPT ![roomId] = a.counters]
           /\ issued' = [issued EXCEPT ![roomId] =
                             Append(@, [username |-> name, type |-> type,
                                        actorId |-> a.actorId, via |-> "http"])]
           /\ participants' = [participants EXCEPT ![roomId] = members]
           /\ events' = [events EXCEPT ![roomId] =
                            Append(@, [id |-> tally[roomId].pushed + 1, ts |-> now,
                                       actorId |-> a.actorId, tool |-> "join",
                                       input |-> EmptyObject, output |-> EmptyObject])]
           /\ sockets' = broadcastToRoom(wsConnections[roomId], sockets,
                             [type |-> "presence_update",
                              participants |-> MapKeys(members)])
    /\ UNCHANGED <<agentMemory, agent, replies, watchers, poller, now, experience,
                   rooms, sharedState, wsConnections, calls, tally>>

\* POST /rooms/:roomId/join: what the handler does, whoever sent the request
PostJoin(roomId, username, actorType) ==
    /\ roomId \in rooms
    /\ LET name == Default(username, "user")
           type == Default(actorType, "human")
           a == assignActorId(actorCounters[roomId], name, type)
           members == MapSet(participants[roomId], a.actorId,
                             [type |-> type, joinedAt |-> now])
       IN  /\ actorCounters' = [actorCounters EXCEPT ![roomId] = a.counters]
           /\ issued' = [issued EXCEPT ![roomId] =
                             Append(@, [username |-> name, type |-> type,
                                        actorId |-> a.actorId, via |-> "http"])]
           /\ participants' = [participants EXCEPT ![roomId] = members]
           /\ sockets' = broadcastToRoom(wsConnections[roomId], sockets,
                             [type |-> "presence_update",
                              participants |-> MapKeys(members)])
    /\ UNCHANGED <<agentMemory, replies, watchers, now, experience, rooms, sharedState, events,
                   wsConnections, calls, tally>>

\* POST /rooms/:roomId/join sent by a client other than the agent
HttpJoin(roomId, username, actorType) ==
    PostJoin(roomId, username, actorType) /\ UNCHANGED <<agent, poller>>

LeaveEverywhere(roomId, actorId) ==
    /\ roomId \in rooms
    /\ participants' = [r \in rooms |-> MapDelete(participants[r], actorId)]
    /\ sockets' = broadcastToRoom(wsConnections[roomId], sockets,
                      [type |-> "presence_update",
                       participants |-> MapKeys(participants'[roomId])])
    /\ UNCHANGED <<agentMemory, agent, replies, issued, watchers, poller, now, experience, rooms, sharedState,
                   events, actorCounters, wsConnections, calls, tally>>

\* A leave that gives the ordinal back to the counter
LeaveReleasesOrdinal(roomId, actorId) ==
    /\ roomId \in rooms
    /\ participants' = [participants EXCEPT ![roomId] = MapDelete(@, actorId)]
    /\ actorCounters' =
          [actorCounters EXCEPT ![roomId] =
              LET prefix == SubSeq(actorId, 1, Len(actorId) - 1)
              IN  IF prefix \in DOMAIN @
                  THEN (prefix :> (@[prefix] - 1)) @@ @ ELSE @]
    /\ sockets' = broadcastToRoom(wsConnections[roomId], sockets,
                      [type |-> "presence_update",
                       participants |-> MapKeys(participants'[roomId])])
    /\ UNCHANGED <<agentMemory, agent, replies, issued, watchers, poller, now, experience, rooms, sharedState,
                   events, wsConnections, calls, tally>>

Leave(roomId, actorId) ==
    /\ roomId \in rooms
    /\ participants' = [participants EXCEPT ![roomId] = MapDelete(@, actorId)]
    /\ sockets' = broadcastToRoom(wsConnections[roomId], sockets,
                      [type |-> "presence_update",
                       participants |-> MapKeys(participants'[roomId])])
    /\ UNCHANGED <<agentMemory, agent, replies, issued, watchers, poller, now, experience, rooms, sharedState,
                   events, actorCounters, wsConnections, calls, tally>>

----------------------------------------------------------------------------
(* GET /rooms/:roomId/events.  The handler answers at once or starts a     *)
(* 200 ms interval timer whose callback re-checks the log; the request's   *)
(* "close" listener clears the timer.  A timer callback runs at or after   *)
(* the moment it is due, never before.                                     *)

POLL_INTERVAL == 200
MAX_TIMEOUT == 55000

\* A query parameter is the list of the values the URL gives it: none, or
\* the decimal text of a number.  parseInt(req.query.x) || 0 : a parameter
\* that is absent parses to NaN.
NoQuery == << >>
Query(n) == <<n>>
ParseIntOr0(v) == IF v = NoQuery THEN 0 ELSE v[1]

NewWatcher(roomId, since, timeout, client) ==
    [roomId |-> roomId, query |-> [since |-> since, timeout |-> timeout],
     since |-> ParseIntOr0(since),
     timeout |-> Min(ParseIntOr0(timeout), MAX_TIMEOUT),
     start |-> 0, interval |-> "none", nextFire |-> 0,
     status |-> 0, body |-> "null", sent |-> 0, sentAt |-> 0,
     closed |-> FALSE, client |-> client, consumed |-> FALSE]

\* res.json({ events, sharedState, participants })
Respond(rec) ==
    [rec EXCEPT !.status = 200,
                !.body = EventsResponse(rec.roomId, rec.since),
                !.sent = @ + 1, !.sentAt = now]

\* setInterval(..., 200)
StartInterval(rec) ==
    [rec EXCEPT !.start = now, !.interval = "active",
                !.nextFire = now + POLL_INTERVAL]

\* A handler that answers at once only when it has events to give
AnswersAtOnceIfEvents(rec) ==
    getNewEvents(events[rec.roomId], rec.since) # << >>

\* A handler that answers at once only when it was given no time to wait
AnswersAtOnceIfNoTimeout(rec) == rec.timeout = 0

\* events.length > 0 || timeout === 0
AnswersAtOnce(rec) ==
    \/ getNewEvents(events[rec.roomId], rec.since) # << >>
    \/ rec.timeout = 0

GetEvents(roomId, since, timeout, client) ==
    LET rec == NewWatcher(roomId, since, timeout, client)
    IN  /\ Len(watchers) < MaxWatchers
        /\ watchers' =
              IF roomId \notin rooms
              THEN Append(watchers, [rec EXCEPT !.status = 404,
                                                !.body = [error |-> "Room not found"],
                                                !.sent = 1, !.sentAt = now])
              ELSE IF AnswersAtOnce(rec)
              THEN Append(watchers, Respond(rec))
              ELSE Append(watchers, StartInterval(rec))
        /\ UNCHANGED <<agentMemory, agent, replies, issued, poller, now, experience, rooms, sharedState,
                       participants, events, actorCounters, wsConnections,
                       sockets, calls, tally>>

\* An interval callback that answers every time it runs
DueAlways(rec) == TRUE

\* Whether the interval callback answers now
Due(rec) ==
    \/ getNewEvents(events[rec.roomId], rec.since) # << >>
    \/ now - rec.start >= rec.timeout

\* A listener that leaves the timer running
KeepInterval(rec) == rec

\* clearInterval(interval)
ClearInterval(rec) == [rec EXCEPT !.interval = "cleared"]

\* The interval callback
PollFire(w) ==
    /\ w \in 1..Len(watchers)
    /\ watchers[w].interval = "active"
    /\ now >= watchers[w].nextFire
    /\ watchers' =
          [watchers EXCEPT ![w] =
              IF Due(@)
              THEN Respond(ClearInterval(@))
              ELSE [@ EXCEPT !.nextFire = now + POLL_INTERVAL]]
    /\ UNCHANGED <<agentMemory, agent, replies, issued, poller, now, experience, rooms, sharedState,
                   participants, events, actorCounters, wsConnections,
                   sockets, calls, tally>>

\* req.on("close"): the listener exists once the timer was started, and
\* once the timer is cleared it has nothing left to change
WatchClose(w) ==
    /\ w \in 1..Len(watchers)
    /\ watchers[w].interval = "active"
    /\ ~watchers[w].closed
    /\ watchers' = [watchers EXCEPT ![w] = [ClearInterval(@) EXCEPT !.closed = TRUE]]
    /\ UNCHANGED <<agentMemory, agent, replies, issued, poller, now, experience, rooms, sharedState,
                   participants, events, actorCounters, wsConnections,
                   sockets, calls, tally>>

\* Date.now() moves on by a timer period or by the longest timeout, over
\* the instants 1 + a * 200 + b * 55000
TimePoints ==
    {1 + a * POLL_INTERVAL + b * MAX_TIMEOUT : a \in 0..MaxPolls, b \in 0..1}

Elapse(d) ==
    /\ now + d \in TimePoints
    /\ now' = now + d
    /\ UNCHANGED <<agentMemory, agent, replies, issued, watchers, poller, experience, rooms, sharedState,
                   participants, events, actorCounters, wsConnections,
                   sockets, calls, tally>>

(* A caller of the events endpoint that keeps a cursor as the watch tool   *)
(* of the agent does: it sends since = cursor, and on a response holding   *)
(* events it moves the cursor to the largest ts among them.                *)

PollerRoom == "r1"
PollerTimeout == 30000

PollerWaiting == \E w \in 1..Len(watchers) :
                    watchers[w].client /\ ~watchers[w].consumed

MaxTs(evs) == CHOOSE t \in {evs[i].ts : i \in 1..Len(evs)} :
                  \A i \in 1..Len(evs) : evs[i].ts <= t

PollerQuery ==
    /\ ~PollerWaiting
    /\ GetEvents(PollerRoom, Query(poller.cursor), Query(PollerTimeout), TRUE)

PollerReceive(w) ==
    /\ w \in 1..Len(watchers)
    /\ watchers[w].client
    /\ ~watchers[w].consumed
    /\ watchers[w].sent > 0
    /\ LET evs == watchers[w].body.events
       IN  poller' = [cursor |-> IF Len(evs) > 0 THEN MaxTs(evs) ELSE poller.cursor,
                      seen |-> poller.seen \o [i \in 1..Len(evs) |-> evs[i].id]]
    /\ watchers' = [watchers EXCEPT ![w].consumed = TRUE]
    /\ UNCHANGED <<agentMemory, agent, replies, issued, now, experience, rooms, sharedState, participants,
                   events, actorCounters, wsConnections, sockets, calls, tally>>

----------------------------------------------------------------------------
(* What the clients send *)

Alice == <<"alice", "human", "1">>

CounterInput == EmptyObject
RedAtOrigin == [x |-> 0, y |-> 0, color |-> "#ff0000"]
RedOffGrid == [x |-> 70, y |-> 0, color |-> "#ff0000"]

ToolInputs(toolName) ==
    IF toolName = "pixel.place" THEN {RedAtOrigin, RedOffGrid} ELSE {CounterInput}

\* "counter.double" is in no tool table; the tool that uses the actor's
\* memory is called where the memory endpoints are (SpecMemory), the rest
\* of the pixel canvas where the canvas is (SpecPixel, SpecRegion)
ToolNames ==
    ({ToolTable[i] : i \in 1..Len(ToolTable)}
        \ {"remember.visit", "pixel.place_batch", "pixel.get_region",
           "pixel.clear"})
       \cup {"counter.double"}

(* Spec: HTTP clients only.  Rooms are created, any tool is called on any   *)
(* room id, suspended handlers resume in any order, time passes.           *)

Next ==
    \/ Tick
    \/ \E r \in RoomIds : CreateRoom(r)
    \/ \E r \in RoomIds, t \in ToolNames : \E i \in ToolInputs(t) :
          ExecuteTool(r, t, Alice, i, "")
    \/ \E q \in 1..MaxCalls : ResumeHandler(q)

Spec == Init /\ [][Next]_vars

(* SpecPush: both rooms exist, viewers connect, join one room each and      *)
(* close, while tools are called on room r1 and on a room id that was      *)
(* never created.                                                          *)

InitPush ==
    /\ now = 1
    /\ experience = ExperienceId
    /\ rooms = RoomIds
    /\ sharedState = [r \in RoomIds |-> EmptyObject]
    /\ participants = [r \in RoomIds |-> << >>]
    /\ events = [r \in RoomIds |-> << >>]
    /\ actorCounters = [r \in RoomIds |-> << >>]
    /\ wsConnections = [r \in RoomIds |-> {}]
    /\ sockets = << >>
    /\ calls = << >>
    /\ tally = [r \in RoomIds |-> [pushed |-> 0, succeeded |-> 0]]
    /\ issued = [r \in RoomIds |-> << >>]
    /\ watchers = << >>
    /\ poller = NewPoller
    /\ agentMemory = << >>
    /\ agent = NewAgent
    /\ replies = << >>

PushRequests ==
    { <<"r1", "counter.increment", CounterInput>>,
      <<"r1", "notify.increment", CounterInput>>,
      <<"r1", "fail.increment", CounterInput>>,
      <<"r1", "pixel.place", RedOffGrid>>,
      <<"r1", "counter.double", CounterInput>>,
      <<"r9", "counter.increment", CounterInput>> }

NextPush ==
    \/ \E x \in PushRequests : ExecuteTool(x[1], x[2], Alice, x[3], "")
    \/ \E q \in 1..MaxCalls : ResumeHandler(q)
    \/ \E w \in WsIds : WsConnect(w)
    \/ \E w \in WsIds, r \in RoomIds :
          /\ w \in DOMAIN sockets
          /\ sockets[w].joinedRoom = NoRoom
          /\ WsJoin(w, r, "sam")
    \/ \E w \in WsIds : WsClose(w)

SpecPush == InitPush /\ [][NextPush]_vars

(* SpecLog: room r1 after n counter.increment calls by alice, one per       *)
(* millisecond, n just below or at the cap of the log; then more calls.    *)

PreloadedEvent(k) ==
    [id |-> k, ts |-> k, actorId |-> Alice, owner |-> "alice",
     tool |-> "counter.increment", input |-> EmptyObject, output |-> [count |-> k]]

InitLog ==
    \E n \in (EVENT_CAP - MaxPreload)..EVENT_CAP :
        /\ now = n + 1
        /\ experience = ExperienceId
        /\ rooms = {"r1"}
        /\ sharedState = [r \in {"r1"} |-> [count |-> n]]
        /\ participants = [r \in {"r1"} |-> << >>]
        /\ events = [r \in {"r1"} |-> [k \in 1..n |-> PreloadedEvent(k)]]
        /\ actorCounters = [r \in {"r1"} |-> << >>]
        /\ wsConnections = [r \in {"r1"} |-> {}]
        /\ sockets = << >>
        /\ calls = << >>
        /\ tally = [r \in {"r1"} |-> [pushed |-> n, succeeded |-> n]]
        /\ issued = [r \in {"r1"} |-> << >>]
        /\ watchers = << >>
        /\ poller = NewPoller
        /\ agentMemory = << >>
        /\ agent = NewAgent
        /\ replies = << >>

LogRequests ==
    { <<"r1", "counter.increment", CounterInput>>,
      <<"r1", "slow.increment", CounterInput>>,
      <<"r1", "fail.increment", CounterInput>>,
      <<"r1", "pixel.place", RedOffGrid>>,
      <<"r1", "pixel.place", RedAtOrigin>> }

TickLog ==
    /\ now < EVENT_CAP + 1 + MaxTicks
    /\ now' = now + 1
    /\ UNCHANGED <<agentMemory, agent, replies, issued, watchers, poller, experience, rooms, sharedState, participants, events,
                   actorCounters, wsConnections, sockets, calls, tally>>

NextLog ==
    \/ TickLog
    \/ \E x \in LogRequests : ExecuteTool(x[1], x[2], Alice, x[3], "")
    \/ \E q \in 1..MaxCalls : ResumeHandler(q)

SpecLog == InitLog /\ [][NextLog]_vars

----------------------------------------------------------------------------
(* Vocabulary of the properties *)

CallIds == 1..Len(calls)

\* The calls that reached the try block of the gate
ReachedGate(q) == calls[q].status \in {0, 200, 400}

\* This step answers call q
Answers(q) ==
    /\ q \in 1..Len(calls')
    /\ calls'[q].status # 0
    /\ (q > Len(calls) \/ calls[q].status = 0)

\* This step is the arrival of call q
Arrives(q) == q \in 1..Len(calls') /\ q > Len(calls)

IsSuccessEvent(e) == "output" \in DOMAIN e /\ "error" \notin DOMAIN e
IsFailureEvent(e) == "error" \in DOMAIN e /\ "output" \notin DOMAIN e

\* The state a handler leaves when it runs alone, start to end, on `state`
RECURSIVE HandlerAlone(_, _, _, _, _)
HandlerAlone(toolName, seg, ctx, input, state) ==
    LET run == Handler(toolName, seg, ctx, input)
        after == IF run.sets = << >> THEN state ELSE Last(run.sets)
    IN  IF run.kind = "await"
        THEN HandlerAlone(toolName, seg + 1, ctx, input, after)
        ELSE after

Serially(state, c) ==
    HandlerAlone(ToolTable[c.tool], 1, [c.ctx EXCEPT !.state = state],
                 c.validatedInput, state)

\* Every state some serial order of the calls Q leaves, started on `state`
RECURSIVE SerialOutcomes(_, _)
SerialOutcomes(state, Q) ==
    IF Q = {} THEN {state}
    ELSE UNION {SerialOutcomes(Serially(state, calls[q]), Q \ {q}) : q \in Q}

OpenSubscribers(r) ==
    {w \in wsConnections[r] : sockets[w].readyState = "OPEN"}

StateUpdates(inbox) == SelectSeq(inbox, LAMBDA m : m.type = "shared_state_update")

----------------------------------------------------------------------------
(* C1: at most one handler invocation is in flight per room at any         *)
(* instant; the context snapshot of a second invocation on the room is     *)
(* not taken while the first is suspended.                                 *)
C1_OneInFlightPerRoom ==
    \A q1, q2 \in CallIds :
        (InFlight(q1) /\ InFlight(q2) /\ calls[q1].roomId = calls[q2].roomId)
            => q1 = q2

(* C2: once the invocations on a room have all finished and succeeded,     *)
(* its sharedState is what running their handlers one after the other in   *)
(* some order leaves: no update is lost.                                   *)
C2_SerialOutcome ==
    \A r \in rooms :
        LET Q == {q \in CallIds : calls[q].roomId = r /\ ReachedGate(q)}
        IN  (\A q \in Q : calls[q].status = 200)
                => sharedState[r] \in SerialOutcomes(EmptyObject, Q)

(* C3: every invocation that reached the gate and was answered pushed      *)
(* exactly one event, and the events of a room are in the order in which   *)
(* the invocations were submitted.                                         *)
C3_OneEventInSubmissionOrder ==
    /\ \A q \in CallIds :
          ReachedGate(q) =>
              Len(calls[q].eventIds) = (IF calls[q].status = 0 THEN 0 ELSE 1)
    /\ \A q1, q2 \in CallIds :
          ( /\ q1 < q2
            /\ calls[q1].roomId = calls[q2].roomId
            /\ calls[q1].eventIds # << >>
            /\ calls[q2].eventIds # << >> )
              => calls[q1].eventIds[1] < calls[q2].eventIds[1]

(* C4: a room's log never holds more than 200 entries, whatever mix of     *)
(* successes and failures produced them, and it is always the most recent  *)
(* entries in the order they were pushed.                                  *)
C4_LogWithinCap ==
    \A r \in rooms :
        /\ Len(events[r]) <= EVENT_CAP
        /\ \A i \in 1..Len(events[r]) :
              events[r][i].id = tally[r].pushed - Len(events[r]) + i

(* C5: on a room where more than 200 invocations have succeeded, the       *)
(* latest of them being the latest entry of the log, an events fetch with  *)
(* since=0 returns exactly the 200 most recently pushed events, in the     *)
(* order they were pushed.                                                 *)
C5_FetchReturnsLast200 ==
    \A r \in rooms :
        ( /\ tally[r].succeeded > EVENT_CAP
          /\ events[r] # << >>
          /\ IsSuccessEvent(Last(events[r])) )
            => LET got == EventsResponse(r, 0).events
               IN  /\ Len(got) = EVENT_CAP
                   /\ \A i \in 1..Len(got) :
                         got[i].id = tally[r].pushed - EVENT_CAP + i

C5_Witness ==
    \E r \in rooms :
        /\ tally[r].succeeded > EVENT_CAP
        /\ IsSuccessEvent(Last(events[r]))
        /\ \E q \in CallIds : calls[q].status = 200 /\ calls[q].roomId = r
        /\ EventsResponse(r, 0).events[1].id > 1

(* C6: an invocation whose input fails the tool's schema is answered with  *)
(* the invalid-input failure, leaves the room's sharedState unchanged,     *)
(* never runs the handler, sends nothing to any socket and pushes exactly  *)
(* one failure event to the room's log.                                    *)
C6_InvalidInputStep ==
    [][\A q \in 1..MaxCalls :
          ( /\ Arrives(q)
            /\ calls'[q].roomId \in rooms
            /\ experience # "null"
            /\ InTable(calls'[q].toolName)
            /\ ~SchemaAccepts(calls'[q].toolName, calls'[q].input) )
          => LET c == calls'[q]
                 r == c.roomId
             IN  /\ c.status = 400
                 /\ c.body = [error |-> ZodMessage]
                 /\ c.handlerCalls = 0
                 /\ c.setStates = << >>
                 /\ sharedState' = sharedState
                 /\ sockets' = sockets
                 /\ Len(events'[r]) = Len(events[r]) + 1
                 /\ SubSeq(events'[r], 1, Len(events[r])) = events[r]
                 /\ IsFailureEvent(Last(events'[r]))
                 /\ Last(events'[r]).error = ZodMessage
                 /\ \A o \in rooms \ {r} : events'[o] = events[o]
      ]_vars

\* pixel.place with x = 70 was refused while a viewer of the room, joined
\* before the call, is still connected
C6_Witness ==
    \E q \in CallIds, w \in DOMAIN sockets :
        /\ calls[q].toolName = "pixel.place"
        /\ calls[q].input.x = 70
        /\ calls[q].status = 400
        /\ w \in OpenSubscribers(calls[q].roomId)
        /\ sockets[w].inbox[1].events = << >>

(* C7: when a handler throws, exactly one failure event carrying the error *)
(* message is pushed, no socket is sent anything, and the caller is        *)
(* answered with that error.                                               *)
C7_HandlerFailureStep ==
    [][\A q \in 1..MaxCalls :
          (Answers(q) /\ calls'[q].handlerCalls > 0 /\ calls'[q].status # 200)
          => LET c == calls'[q]
                 r == c.roomId
             IN  /\ c.status = 400
                 /\ c.body = [error |-> HandlerMessage]
                 /\ Len(events'[r]) = Len(events[r]) + 1
                 /\ events'[r] = Append(events[r], Last(events'[r]))
                 /\ IsFailureEvent(Last(events'[r]))
                 /\ Last(events'[r]).error = HandlerMessage
                 /\ Last(events'[r]).actorId = c.actorId
                 /\ Last(events'[r]).tool = c.toolName
                 /\ c.eventIds = <<Last(events'[r]).id>>
                 /\ sockets' = sockets
      ]_vars

\* fail.increment threw while a viewer of the room, joined before the call,
\* is still connected
C7_Witness ==
    \E q \in CallIds, w \in DOMAIN sockets :
        /\ calls[q].handlerCalls = 1
        /\ calls[q].body = [error |-> HandlerMessage]
        /\ w \in OpenSubscribers(calls[q].roomId)
        /\ sockets[w].inbox[1].events = << >>
        /\ StateUpdates(sockets[w].inbox) = << >>

(* C8: an invocation naming a room that does not exist, or a tool that is  *)
(* not in the loaded Experience's tool table, is answered not-found, runs  *)
(* no handler and leaves every room's sharedState and participants         *)
(* unchanged.                                                              *)
C8_NotFoundStep ==
    [][\A q \in 1..MaxCalls :
          ( /\ Arrives(q)
            /\ \/ calls'[q].roomId \notin rooms
               \/ experience # "null" /\ ~InTable(calls'[q].toolName) )
          => /\ calls'[q].status = 404
             /\ "error" \in DOMAIN calls'[q].body
             /\ calls'[q].handlerCalls = 0
             /\ calls'[q].setStates = << >>
             /\ sharedState' = sharedState
             /\ participants' = participants
      ]_vars

\* Both kinds of not-found were answered, on a server whose room has
\* state and a participant
C8_Witness ==
    \E q1, q2 \in CallIds :
        /\ calls[q1].status = 404 /\ calls[q1].roomId \notin rooms
        /\ calls[q2].status = 404 /\ calls[q2].roomId \in rooms
        /\ participants[calls[q2].roomId] # << >>

(* C9 as stated: each request-scoped failure is recorded as a failure      *)
(* event; an invocation on an existing room that fails not-found because   *)
(* the tool name is unknown pushes a failure event to that room's log,     *)
(* as invalid input and a handler failure do.                              *)
C9_EveryFailureRecorded ==
    \A q \in CallIds :
        (calls[q].roomId \in rooms /\ calls[q].status \in {400, 404})
            => /\ Len(calls[q].eventIds) = 1
               /\ tally[calls[q].roomId].pushed >= calls[q].eventIds[1]

(* C9 amended: invalid input and a handler failure each push exactly one   *)
(* failure event to the room's log; a not-found failure, for an unknown    *)
(* room or an unknown tool, is answered to the caller only and leaves      *)
(* every log as it was.                                                    *)
C9_FailuresRecordedExceptNotFound ==
    [][\A q \in 1..MaxCalls :
          Answers(q) =>
             LET c == calls'[q]
             IN  /\ c.status = 404 => (events' = events /\ c.eventIds = << >>)
                 /\ c.status = 400 =>
                       /\ Len(events'[c.roomId]) = Len(events[c.roomId]) + 1
                       /\ events'[c.roomId] =
                             Append(events[c.roomId], Last(events'[c.roomId]))
                       /\ IsFailureEvent(Last(events'[c.roomId]))
                       /\ Last(events'[c.roomId]).error = c.body.error
                       /\ c.eventIds = <<Last(events'[c.roomId]).id>>
      ]_vars

\* An unknown tool was called on a room whose log already holds a failure
C9_Witness ==
    \E q1, q2 \in CallIds :
        /\ calls[q1].status = 404
        /\ calls[q1].roomId \in rooms
        /\ q2 < q1
        /\ calls[q2].status = 400
        /\ calls[q2].roomId = calls[q1].roomId
        /\ Len(events[calls[q1].roomId]) = 1

(* C10: on handler success the room's sharedState is the value the handler *)
(* last passed to setState, a success event carrying the handler's return  *)
(* value is pushed, and every connected subscriber of the room is sent a   *)
(* shared_state_update with that new state, that event, the acting actor   *)
(* and the tool name; the state it carries is the one this invocation      *)
(* produced.                                                               *)
C10_SuccessStep ==
    [][\A q \in 1..MaxCalls :
          (Answers(q) /\ calls'[q].status = 200)
          => LET c == calls'[q]
                 r == c.roomId
                 event == Last(events'[r])
                 produced == IF c.setStates = << >>
                             THEN sharedState[r] ELSE Last(c.setStates)
             IN  /\ sharedState'[r] = produced
                 /\ IsSuccessEvent(event)
                 /\ event.output = c.body.output
                 /\ c.eventIds = <<event.id>>
                 /\ \A w \in OpenSubscribers(r) :
                       sockets'[w].inbox =
                          Append(sockets[w].inbox,
                                 [type |-> "shared_state_update", roomId |-> r,
                                  state |-> produced, event |-> event,
                                  changedBy |-> c.actorId, tool |-> c.toolName])
      ]_vars

----------------------------------------------------------------------------
(* SpecRooms: two rooms side by side.  Tools are called on both and actors *)
(* join both over HTTP; on r1 actors also join over the push channel and   *)
(* leave, and its events are fetched.                                      *)

\* r1 is sent a tool that suspends, r2 tools that answer at once
RoomTools(r) ==
    IF r = "r1" THEN {"slow.increment"}
    ELSE {"counter.increment", "fail.increment"}

\* Actor ids allocated so far, over all rooms
IssuedCount == Len(issued["r1"]) + Len(issued["r2"])

\* Requests that allocate or record something, received so far
Arrivals == Len(calls) + IssuedCount + Len(watchers)

ExecuteOn(r) ==
    /\ Arrivals < MaxIssued
    /\ \E t \in RoomTools(r) : ExecuteTool(r, t, Alice, CounterInput, "")
ResumeOn(r) == \E q \in 1..Len(calls) : calls[q].roomId = r /\ ResumeHandler(q)
HttpJoinOn(r) == Arrivals < MaxIssued /\ HttpJoin(r, "sam", Undefined)
LeaveOn(r) ==
    \E i \in 1..Len(participants[r]) : Leave(r, participants[r][i].key)
WsJoinOn(r) ==
    /\ Arrivals < MaxIssued
    /\ \E w \in WsIds : w \in DOMAIN sockets /\ WsJoin(w, r, "sam")
WatchOn(r) == Arrivals < MaxIssued /\ GetEvents(r, NoQuery, NoQuery, FALSE)

\* Every operation a client can address to room r
OperatesOn(r) ==
    \/ ExecuteOn(r)
    \/ ResumeOn(r)
    \/ HttpJoinOn(r)
    \/ LeaveOn(r)
    \/ WsJoinOn(r)
    \/ WatchOn(r)

NextRooms ==
    \/ \E r \in RoomIds : ExecuteOn(r)
    \/ \E r \in RoomIds : ResumeOn(r)
    \/ \E r \in RoomIds : HttpJoinOn(r)
    \/ LeaveOn("r1")
    \/ WsJoinOn("r1")
    \/ WatchOn("r1")
    \/ WsConnect("w1")
    \/ WsClose("w1")

SpecRooms == InitPush /\ [][NextRooms]_vars

----------------------------------------------------------------------------
\* What a room holds
RoomFields(r) ==
    <<sharedState[r], events[r], participants[r], actorCounters[r],
      wsConnections[r]>>

(* C11: rooms are isolated.  A step that is an operation on one room (a    *)
(* tool invocation arriving or resuming with any outcome, a join over      *)
(* either channel, a leave, an events fetch) leaves the sharedState, log,  *)
(* participants, actor counters and subscriber set of every other room     *)
(* unchanged; and an invocation that arrives while an invocation on        *)
(* another room is suspended reaches its handler in the step in which it   *)
(* arrives.                                                                *)
C11_RoomsIsolated ==
    [][ /\ \A a, b \in RoomIds :
              (a # b /\ OperatesOn(a)) => RoomFields(b)' = RoomFields(b)
        /\ \A q \in 1..Len(calls') :
              ( /\ Arrives(q)
                /\ \E p \in CallIds :
                      InFlight(p) /\ calls[p].roomId # calls'[q].roomId )
                  => calls'[q].handlerCalls = 1 ]_vars

\* A call on r2 was answered while an earlier call on r1 is suspended, and
\* an actor has joined r1 meanwhile: r1 has a participant and no event, r2
\* an event and no participant.
C11_Witness ==
    /\ \E q1, q2 \in CallIds :
          /\ q1 < q2
          /\ InFlight(q1) /\ calls[q1].roomId = "r1"
          /\ calls[q2].roomId = "r2" /\ calls[q2].status = 200
    /\ participants["r1"] # << >> /\ events["r1"] = << >>
    /\ participants["r2"] = << >> /\ events["r2"] # << >>

----------------------------------------------------------------------------
(* SpecJoin: actors join room r1 over HTTP and over the push channel under *)
(* several names and kinds, and leave; others join r2.  Room r1 starts     *)
(* with a log longer than what a join returns.                             *)

InitJoin ==
    LET n == JOIN_EVENTS + MaxPreload
    IN  /\ now = n + 1
        /\ experience = ExperienceId
        /\ rooms = RoomIds
        /\ sharedState = [r \in RoomIds |->
                             IF r = "r1" THEN [count |-> n] ELSE EmptyObject]
        /\ participants = [r \in RoomIds |-> << >>]
        /\ events = [r \in RoomIds |->
                        IF r = "r1" THEN [k \in 1..n |-> PreloadedEvent(k)]
                        ELSE << >>]
        /\ actorCounters = [r \in RoomIds |-> << >>]
        /\ wsConnections = [r \in RoomIds |-> {}]
        /\ sockets = << >>
        /\ calls = << >>
        /\ tally = [r \in RoomIds |->
                       IF r = "r1" THEN [pushed |-> n, succeeded |-> n]
                       ELSE [pushed |-> 0, succeeded |-> 0]]
        /\ issued = [r \in RoomIds |-> << >>]
        /\ watchers = << >>
        /\ poller = NewPoller
        /\ agentMemory = << >>
        /\ agent = NewAgent
        /\ replies = << >>

\* Join request bodies: { username, actorType }
JoinBodies ==
    { <<"r1", "sam", Undefined>>,
      <<"r1", "sam", "ai">>,
      <<"r1", "sam-human", "human">>,
      <<"r2", "sam", "human">> }

\* Join messages: { roomId, username }
JoinMessages == { <<"r1", "sam">>, <<"r1", "">>, <<"r2", "sam">> }

\* Room r1 takes MaxIssued joins, room r2 one
JoinsLeft(r) ==
    IF r = "r1" THEN Len(issued[r]) < MaxIssued ELSE Len(issued[r]) < 1

NextJoin ==
    \/ \E b \in JoinBodies : JoinsLeft(b[1]) /\ HttpJoin(b[1], b[2], b[3])
    \/ \E m \in JoinMessages :
          /\ JoinsLeft(m[1])
          /\ "w1" \in DOMAIN sockets
          /\ sockets["w1"].joinedRoom = NoRoom
          /\ WsJoin("w1", m[1], m[2])
    \/ \E r \in RoomIds : LeaveOn(r)
    \/ WsConnect("w1")
    \/ WsClose("w1")

SpecJoin == InitJoin /\ [][NextJoin]_vars

----------------------------------------------------------------------------
\* The i-th allocation of room r is the Ordinal(r, i)-th for its pair
Ordinal(r, i) ==
    Cardinality({j \in 1..i : /\ issued[r][j].username = issued[r][i].username
                              /\ issued[r][j].type = issued[r][i].type})

(* C12: the actor ids allocated within one room are pairwise distinct over *)
(* the room's lifetime, whatever the interleaving of HTTP joins, push      *)
(* joins and leaves: an id whose actor left is not allocated again, and    *)
(* every participant holds an allocated id.                                *)
C12_ActorIdsDistinct ==
    \A r \in rooms :
        /\ \A i, j \in 1..Len(issued[r]) :
              i # j => issued[r][i].actorId # issued[r][j].actorId
        /\ \A k \in 1..Len(participants[r]) :
              \E i \in 1..Len(issued[r]) :
                  participants[r][k].key = issued[r][i].actorId

\* An actor of r1 has left, and the same username and kind joined r1 again
\* over the other channel.
C12_Witness ==
    \E i, j \in 1..Len(issued["r1"]) :
        /\ i < j
        /\ issued["r1"][i].username = issued["r1"][j].username
        /\ issued["r1"][i].type = issued["r1"][j].type
        /\ issued["r1"][i].via # issued["r1"][j].via
        /\ \A k \in 1..Len(participants["r1"]) :
              participants["r1"][k].key # issued["r1"][i].actorId

(* C13: the k-th allocation for a (username, kind) pair in a room returns  *)
(* username-kind-k, counting from 1, whatever was allocated to other pairs *)
(* of the room and in other rooms.                                         *)
C13_KthAllocation ==
    \A r \in rooms :
        \A i \in 1..Len(issued[r]) :
            issued[r][i].actorId =
                UsernamePieces(issued[r][i].username)
                    \o <<issued[r][i].type, Numeral(Ordinal(r, i))>>

\* sam/human got sam-human-1 and sam-human-2 in r1 with another pair's
\* allocation in between, and r2 has allocated as well.
C13_Witness ==
    /\ Len(issued["r1"]) = 3
    /\ issued["r1"][1].actorId = <<"sam", "human", "1">>
    /\ issued["r1"][2].actorId[Len(issued["r1"][2].actorId)] = "1"
    /\ issued["r1"][3].actorId = <<"sam", "human", "2">>
    /\ issued["r2"] # << >>

(* C14: a push-channel join for an existing room registers the connection  *)
(* as a subscriber of the room, allocates the actor id from the counter    *)
(* the HTTP join uses (the ordinal follows the joins of the same username  *)
(* and kind human over either channel), adds the id to the participants,   *)
(* and answers with a joined message carrying the room's state, its        *)
(* participants and the last 20 events.                                    *)
C14_PushJoinStep ==
    [][ \A w \in WsIds, m \in JoinMessages :
          WsJoin(w, m[1], m[2]) =>
            LET r == m[1]
                name == IF m[2] = "" THEN "viewer" ELSE m[2]
                prior == Cardinality({i \in 1..Len(issued[r]) :
                                         /\ issued[r][i].username = name
                                         /\ issued[r][i].type = "human"})
                id == UsernamePieces(name) \o <<"human", Numeral(prior + 1)>>
                at == Len(sockets[w].inbox) + 1
            IN  /\ w \in wsConnections'[r]
                /\ Last(issued'[r]).actorId = id
                /\ \E k \in 1..Len(participants'[r]) :
                      participants'[r][k].key = id
                /\ Len(sockets'[w].inbox) >= at
                /\ sockets'[w].inbox[at] =
                      [type |-> "joined", roomId |-> r, actorId |-> id,
                       sharedState |-> sharedState[r],
                       participants |-> MapKeys(participants'[r]),
                       events |-> SliceLast(events[r], JOIN_EVENTS)] ]_vars

\* sam joined r1 over HTTP, then over the push channel, then over HTTP
\* again, and the joined message carries 20 of the room's 21 events.
C14_Witness ==
    /\ Len(issued["r1"]) = 3
    /\ \A i \in 1..3 :
          /\ issued["r1"][i].via = <<"http", "ws", "http">>[i]
          /\ issued["r1"][i].actorId = <<"sam", "human", Numeral(i)>>
    /\ "w1" \in wsConnections["r1"]
    /\ \E k \in 1..Len(sockets["w1"].inbox) :
          /\ sockets["w1"].inbox[k].type = "joined"
          /\ Len(sockets["w1"].inbox[k].events) = JOIN_EVENTS
          /\ Len(events["r1"]) > JOIN_EVENTS

----------------------------------------------------------------------------
(* SpecWatch: callers fetch and await the events of room r1 while tools    *)
(* succeed and fail on it and time passes; waiting callers disconnect.     *)
(* Requests arrive during the first timer periods, so that the longest     *)
(* timeout still ends within the instants of TimePoints.                   *)

WatchQueries ==
    { <<"r1", NoQuery, NoQuery>>,
      <<"r1", Query(1), Query(0)>>,
      <<"r1", Query(1), Query(300)>>,
      <<"r1", Query(1), Query(60000)>> }

WatchTools == {"counter.increment", "fail.increment"}

NextWatch ==
    \/ \E x \in WatchQueries :
          /\ now <= 1 + MaxPolls * POLL_INTERVAL
          /\ Len(watchers) < MaxWatchers - 1
          /\ GetEvents(x[1], x[2], x[3], FALSE)
    \/ \E w \in 1..MaxWatchers : PollFire(w)
    \/ \E w \in 1..MaxWatchers : WatchClose(w)
    \/ \E d \in {POLL_INTERVAL, MAX_TIMEOUT} : Elapse(d)
    \/ \E t \in WatchTools : ExecuteTool("r1", t, Alice, CounterInput, "")

SpecWatch == InitPush /\ [][NextWatch]_vars

(* SpecClose: callers that have to wait, some of which disconnect.         *)
(* SpecWait: one such caller; timer callbacks that are due run, and time   *)
(* passes.                                                                 *)

WaitQueries ==
    { <<"r1", Query(1), Query(300)>>,
      <<"r1", Query(1), Query(60000)>> }

NextClose ==
    \/ \E x \in WaitQueries :
          /\ now <= 1 + POLL_INTERVAL
          /\ GetEvents(x[1], x[2], x[3], FALSE)
    \/ \E w \in 1..MaxWatchers : PollFire(w)
    \/ \E w \in 1..MaxWatchers : WatchClose(w)
    \/ \E d \in {POLL_INTERVAL, MAX_TIMEOUT} : Elapse(d)
    \/ /\ Len(calls) < MaxCalls - 1
       /\ ExecuteTool("r1", "counter.increment", Alice, CounterInput, "")

SpecClose == InitPush /\ [][NextClose]_vars

NextWait ==
    \/ \E x \in WaitQueries :
          /\ now <= 1 + POLL_INTERVAL
          /\ Len(watchers) < MaxWatchers - 1
          /\ GetEvents(x[1], x[2], x[3], FALSE)
    \/ \E w \in 1..MaxWatchers : PollFire(w)
    \/ \E w \in 1..MaxWatchers : WatchClose(w)
    \/ \E d \in {POLL_INTERVAL, MAX_TIMEOUT} : Elapse(d)
    \/ ExecuteTool("r1", "counter.increment", Alice, CounterInput, "")

SpecWait ==
    /\ InitPush
    /\ [][NextWait]_vars
    /\ \A w \in 1..MaxWatchers : WF_vars(PollFire(w))
    /\ WF_vars(\E d \in {POLL_INTERVAL, MAX_TIMEOUT} : Elapse(d))

----------------------------------------------------------------------------
\* Events request w is received in this step
WatchArrives(w) == w = Len(watchers) + 1 /\ Len(watchers') = w

\* The positions of a room's log whose event is past the cursor of w, and
\* the body answering w from the room as it is
PastCursor(rec) ==
    {i \in 1..Len(events[rec.roomId]) : events[rec.roomId][i].ts > rec.since}

\* evs is the events of the room's log at the positions I, in log order
InLogOrder(evs, r, I) ==
    /\ Len(evs) = Cardinality(I)
    /\ \A k \in 1..Len(evs) : \E i \in I :
          /\ evs[k] = events[r][i]
          /\ Cardinality({j \in I : j < i}) = k - 1

\* The time a request may wait: min(timeout, 55000)
WaitOf(rec) ==
    LET t == IF rec.query.timeout = << >> THEN 0 ELSE rec.query.timeout[1]
    IN  IF t < 55000 THEN t ELSE 55000

(* C15: an events request with timeout=0 for a room whose log holds no     *)
(* event with ts greater than the cursor is answered in the step in which  *)
(* it arrives, without a timer, with an empty event list and the room's    *)
(* current state and participants.                                         *)
C15_ZeroTimeoutAnswersEmpty ==
    [][ \A w \in 1..MaxWatchers :
          ( /\ WatchArrives(w)
            /\ watchers'[w].roomId \in rooms
            /\ WaitOf(watchers'[w]) = 0
            /\ PastCursor(watchers'[w]) = {} )
          => /\ watchers'[w].sent = 1
             /\ watchers'[w].sentAt = now
             /\ watchers'[w].interval = "none"
             /\ watchers'[w].body =
                   [events |-> << >>,
                    sharedState |-> sharedState[watchers'[w].roomId],
                    participants |-> MapKeys(participants[watchers'[w].roomId])]
      ]_vars

\* A request with since=1 and timeout=0 was answered with no events by a
\* room that had already counted to 1 at time 1.
C15_Witness ==
    \E w \in 1..Len(watchers) :
        /\ watchers[w].query = [since |-> <<1>>, timeout |-> <<0>>]
        /\ watchers[w].sent = 1
        /\ watchers[w].interval = "none"
        /\ watchers[w].body.events = << >>
        /\ watchers[w].body.sharedState = [count |-> 1]

(* C16: an events request for a room whose log already holds events with   *)
(* ts strictly greater than the cursor is answered in the step in which it *)
(* arrives, whatever its timeout, without a timer, with exactly those      *)
(* events in the order of the log.                                         *)
C16_EventsAnswerAtOnce ==
    [][ \A w \in 1..MaxWatchers :
          ( /\ WatchArrives(w)
            /\ watchers'[w].roomId \in rooms
            /\ PastCursor(watchers'[w]) # {} )
          => /\ watchers'[w].sent = 1
             /\ watchers'[w].sentAt = now
             /\ watchers'[w].interval = "none"
             /\ InLogOrder(watchers'[w].body.events, watchers'[w].roomId,
                           PastCursor(watchers'[w]))
      ]_vars

\* A request with since=1 and a timeout was answered at once with the
\* second event of the log alone, the first having ts 1.
C16_Witness ==
    \E w \in 1..Len(watchers) :
        /\ WaitOf(watchers[w]) > 0
        /\ watchers[w].since = 1
        /\ watchers[w].sent = 1
        /\ watchers[w].interval = "none"
        /\ Len(watchers[w].body.events) = 1
        /\ watchers[w].body.events[1].id = 2

(* C17: an events request with no event past the cursor and timeout > 0 is *)
(* not answered when it arrives; it is answered only by a re-check that    *)
(* finds an event past the cursor or min(timeout, 55000) ms elapsed, the   *)
(* first such re-check answers it, with the events past the cursor at that *)
(* moment, and it is answered at most once; unless the caller disconnects  *)
(* it is eventually answered.                                              *)
C17_WaitsThenAnswersOnce ==
    /\ [][ \A w \in 1..MaxWatchers :
            /\ ( /\ WatchArrives(w)
                 /\ watchers'[w].roomId \in rooms
                 /\ WaitOf(watchers'[w]) > 0
                 /\ PastCursor(watchers'[w]) = {} )
                  => (watchers'[w].sent = 0 /\ watchers'[w].interval = "active")
            /\ (w <= Len(watchers) /\ watchers'[w].sent # watchers[w].sent)
                  => /\ watchers[w].sent = 0
                     /\ watchers'[w].sent = 1
                     /\ watchers[w].interval = "active"
                     /\ \/ PastCursor(watchers[w]) # {}
                        \/ now - watchers[w].start >= WaitOf(watchers[w])
                     /\ InLogOrder(watchers'[w].body.events, watchers[w].roomId,
                                   PastCursor(watchers[w]))
                     /\ watchers'[w].body.sharedState =
                           sharedState[watchers[w].roomId]
            /\ ( /\ PollFire(w)
                 /\ \/ PastCursor(watchers[w]) # {}
                    \/ now - watchers[w].start >= WaitOf(watchers[w]) )
                  => watchers'[w].sent = 1
         ]_vars
    /\ \A w \in 1..MaxWatchers :
          (w <= Len(watchers) /\ watchers[w].interval = "active")
             ~> (w <= Len(watchers)
                    /\ (watchers[w].sent = 1 \/ watchers[w].closed))

\* A request with timeout=60000 was answered with no events, 55000 ms or
\* more after it arrived, and never closed.
C17_Witness ==
    \E w \in 1..Len(watchers) :
        /\ watchers[w].query.timeout = <<60000>>
        /\ watchers[w].sent = 1
        /\ ~watchers[w].closed
        /\ watchers[w].sentAt - watchers[w].start >= 55000
        /\ watchers[w].body.events = << >>

(* C18: when the connection of a waiting events request closes, its timer  *)
(* is cancelled and the request is never answered afterwards; the close    *)
(* changes no room's state or log and no other request, and the re-check   *)
(* of another request still answers it when an event is past its cursor    *)
(* or its time has elapsed.                                                *)
C18_CloseCancels ==
    [][ \A w \in 1..MaxWatchers :
          /\ (WatchClose(w) /\ watchers[w].interval = "active")
                => /\ watchers'[w].interval = "cleared"
                   /\ watchers'[w].sent = 0
                   /\ \A r \in rooms : RoomFields(r)' = RoomFields(r)
                   /\ \A v \in 1..Len(watchers) :
                         v # w => watchers'[v] = watchers[v]
          /\ ( /\ w <= Len(watchers)
               /\ watchers[w].closed
               /\ watchers[w].sent = 0 )
                => (watchers'[w].sent = 0 /\ ~PollFire(w))
          /\ \A v \in 1..MaxWatchers :
                ( /\ w <= Len(watchers)
                  /\ watchers[w].closed
                  /\ v # w
                  /\ PollFire(v)
                  /\ \/ PastCursor(watchers[v]) # {}
                     \/ now - watchers[v].start >= WaitOf(watchers[v]) )
                   => watchers'[v].sent = 1
      ]_vars

\* A request closed while waiting stays unanswered although an event is
\* past its cursor, and another request that waited was answered after.
C18_Witness ==
    \E w, v \in 1..Len(watchers) :
        /\ w # v
        /\ watchers[w].closed
        /\ watchers[w].sent = 0
        /\ PastCursor(watchers[w]) # {}
        /\ ~watchers[v].closed
        /\ watchers[v].interval = "cleared"
        /\ watchers[v].sent = 1
        /\ watchers[v].body.events # << >>

----------------------------------------------------------------------------
(* SpecPoll: one caller follows the log of room r1 with its cursor while   *)
(* tools succeed and fail on the room and time passes.                     *)

NextPoll ==
    \/ PollerQuery
    \/ \E w \in 1..MaxWatchers : PollerReceive(w)
    \/ \E w \in 1..MaxWatchers : PollFire(w)
    \/ \E d \in {POLL_INTERVAL, MAX_TIMEOUT} : Elapse(d)
    \/ \E t \in WatchTools : ExecuteTool(PollerRoom, t, Alice, CounterInput, "")

SpecPoll == InitPush /\ [][NextPoll]_vars

(* C19: a caller that always queries with since = the largest timestamp it *)
(* has observed is given every event exactly once and in the order of the  *)
(* log, events sharing a timestamp with an event it was given earlier      *)
(* included: no event is given twice or out of order, and no event of the  *)
(* log is at or before the cursor without having been given.               *)
C19_EveryEventOnceInOrder ==
    /\ \A k, l \in 1..Len(poller.seen) :
          k < l => poller.seen[k] < poller.seen[l]
    /\ \A i \in 1..Len(events[PollerRoom]) :
          events[PollerRoom][i].ts <= poller.cursor
              => \E k \in 1..Len(poller.seen) :
                    poller.seen[k] = events[PollerRoom][i].id


(* C20: in every reachable state the timestamps of a room's log are        *)
(* non-decreasing in the order of the log, also when overlapping handlers  *)
(* finish in an order other than the one they were submitted in and        *)
(* failures are interleaved.                                               *)
C20_TimestampsNonDecreasing ==
    \A r \in rooms :
        \A i, j \in 1..Len(events[r]) :
            i < j => events[r][i].ts <= events[r][j].ts

\* The second call of a room failed while the first was suspended, and the
\* first succeeded a millisecond later: the log holds the failure and then
\* the success.
C20_Witness ==
    \E r \in rooms :
        /\ Len(calls) = 2
        /\ calls[1].roomId = r /\ calls[2].roomId = r
        /\ Len(events[r]) = 2
        /\ IsFailureEvent(events[r][1]) /\ IsSuccessEvent(events[r][2])
        /\ calls[2].eventIds = <<events[r][1].id>>
        /\ calls[1].eventIds = <<events[r][2].id>>
        /\ events[r][1].ts < events[r][2].ts

----------------------------------------------------------------------------
\* The events of a log, as a set
LogEvents(log) == {log[i] : i \in 1..Len(log)}

(* C21: every event in every room's log carries exactly one of output and  *)
(* error: a success event an output and no error, a failure event an error *)
(* and no output; and an event, once appended, is never modified: a step   *)
(* leaves every event that stays in the log as it was, in the same order,  *)
(* and adds at most one at the end.                                        *)
C21_OneOfOutputAndError ==
    [][\A r \in rooms :
          LET old == events[r]
              new == events'[r]
          IN  /\ \A e \in LogEvents(new) : IsSuccessEvent(e) # IsFailureEvent(e)
              /\ \/ new = old
                 \/ /\ new # << >>
                    /\ \E k \in 1..(Len(old) + 1) :
                          new = SubSeq(old, k, Len(old)) \o <<Last(new)>>
      ]_vars

\* A log that holds a success event and a failure event
C21_Witness ==
    \E r \in rooms :
        /\ \E e \in LogEvents(events[r]) : IsSuccessEvent(e) /\ "error" \notin DOMAIN e
        /\ \E e \in LogEvents(events[r]) : IsFailureEvent(e) /\ "output" \notin DOMAIN e
        /\ Len(events[r]) = 2
----------------------------------------------------------------------------
(* C22: setState(next) replaces the whole value, with no merge: after a    *)
(* successful invocation whose last setState argument was next, the room's *)
(* sharedState equals next exactly, so a key of the previous state that is *)
(* absent from next is gone.                                               *)
C22_SetStateReplaces ==
    [][\A q \in 1..MaxCalls :
          (Answers(q) /\ calls'[q].status = 200 /\ calls'[q].setStates # << >>)
          => LET next == Last(calls'[q].setStates)
                 r == calls'[q].roomId
             IN  /\ sharedState'[r] = next
                 /\ \A k \in DOMAIN sharedState[r] :
                       k \notin DOMAIN next => k \notin DOMAIN sharedState'[r]
      ]_vars
----------------------------------------------------------------------------
CounterTools == {"counter.increment", "counter.decrement", "counter.reset"}

\* The calls that found room r, in order of arrival
CallsOn(r) ==
    SelectSeq([q \in 1..Len(calls) |-> q],
              LAMBDA q : calls[q].roomId = r /\ ReachedGate(q))

\* The reference fold: +1, -1, set 0, from 0, over the first n tool names
RECURSIVE RefCount(_, _)
RefCount(ops, n) ==
    IF n = 0 THEN 0
    ELSE CASE ops[n] = "counter.increment" -> RefCount(ops, n - 1) + 1
           [] ops[n] = "counter.decrement" -> RefCount(ops, n - 1) - 1
           [] ops[n] = "counter.reset" -> 0

(* C24: on a room that has only ever seen counter tools, called one after  *)
(* the other, the count is the reference fold (+1, -1, set 0) of the calls *)
(* from 0, the log holds one success event per call in order, and the      *)
(* output of the i-th call, in its answer and in its event, is the count   *)
(* after that call; so n increments leave count n, a log of length n and   *)
(* the outputs {count: 1} .. {count: n}.                                   *)
C24_CounterIsReferenceFold ==
    \A r \in rooms :
        LET Q == CallsOn(r)
            n == Len(Q)
            ops == [i \in 1..n |-> calls[Q[i]].toolName]
        IN  (\A i \in 1..n : ops[i] \in CounterTools)
            => /\ n > 0 => sharedState[r] = [count |-> RefCount(ops, n)]
               /\ n = 0 => sharedState[r] = EmptyObject
               /\ n <= EVENT_CAP => Len(events[r]) = n
               /\ \A i \in 1..n :
                     /\ calls[Q[i]].status = 200
                     /\ calls[Q[i]].body = [output |-> [count |-> RefCount(ops, i)]]
                     /\ IsSuccessEvent(events[r][i])
                     /\ events[r][i].tool = ops[i]
                     /\ events[r][i].output = [count |-> RefCount(ops, i)]
               /\ (\A i \in 1..n : ops[i] = "counter.increment")
                  => \A i \in 1..n : events[r][i].output = [count |-> i]

\* Two increments one after the other on a fresh room: count 2, outputs 1, 2
C24_Witness ==
    \E r \in rooms :
        /\ Len(CallsOn(r)) = 2
        /\ \A i \in 1..2 : calls[CallsOn(r)[i]].toolName = "counter.increment"
        /\ sharedState[r] = [count |-> 2]
        /\ Len(events[r]) = 2
        /\ events[r][1].output = [count |-> 1]
        /\ events[r][2].output = [count |-> 2]

----------------------------------------------------------------------------
(* The memory endpoints, lines 353-365 *)

MaxReplies == 2

\* A request without a key: !key
NoKey == << >>

\* GET /memory
MemoryGet(key) ==
    /\ Len(replies) < MaxReplies
    /\ replies' = Append(replies,
                     [request |-> "GET /memory", key |-> key, status |-> 200,
                      body |-> IF key = NoKey THEN EmptyObject
                               ELSE MemoryOf(agentMemory, key)])
    /\ UNCHANGED <<agentMemory, agent, issued, watchers, poller, now, experience,
                   rooms, sharedState, participants, events, actorCounters,
                   wsConnections, sockets, calls, tally>>

\* POST /memory
MemoryPost(key, updates) ==
    /\ Len(replies) < MaxReplies
    /\ IF key = NoKey
       THEN /\ replies' = Append(replies,
                             [request |-> "POST /memory", key |-> key,
                              status |-> 400, body |-> [error |-> "key required"]])
            /\ UNCHANGED agentMemory
       ELSE /\ agentMemory' = setMemory(agentMemory, key, updates)
            /\ replies' = Append(replies,
                             [request |-> "POST /memory", key |-> key,
                              status |-> 200, body |-> [saved |-> TRUE]])
    /\ UNCHANGED <<agent, issued, watchers, poller, now, experience,
                   rooms, sharedState, participants, events, actorCounters,
                   wsConnections, sockets, calls, tally>>

(* SpecMemory: both rooms exist; memory is read and merged through the     *)
(* endpoint, under the key the gate uses for alice, under another key and  *)
(* without a key, while alice calls a tool that uses her memory and one    *)
(* that uses the room's state.                                             *)

AliceKey == MemoryKey(ExperienceId, Alice)
MemoryKeys == {AliceKey, <<"default">>, NoKey}
MemoryBodies == {EmptyObject, [mood |-> "calm"], [mood |-> "keen", visits |-> 0]}
MemoryTools == {"remember.visit", "counter.increment"}

NextMemory ==
    \/ \E key \in MemoryKeys : MemoryGet(key)
    \/ \E key \in MemoryKeys, updates \in MemoryBodies : MemoryPost(key, updates)
    \/ \E t \in MemoryTools : ExecuteTool("r1", t, Alice, CounterInput, "")

SpecMemory == InitPush /\ [][NextMemory]_vars

\* A memory operation leaves every room as it was
RoomsUntouched == UNCHANGED <<rooms, sharedState, events, participants>>

(* C23: a memory update is a shallow merge, never a replacement: after     *)
(* merging updates under a key, the value under the key has the update's   *)
(* value for every key of the update and the previous value for every      *)
(* other key, and the values under other keys are as before; merging what  *)
(* the value already holds changes nothing; this holds for the memory      *)
(* endpoint and for a handler's setMemory alike; and no memory operation   *)
(* changes a room's state, events or participants.                         *)
C23_MemoryMerges ==
    [][/\ \A key \in MemoryKeys, updates \in MemoryBodies :
             (MemoryPost(key, updates) /\ key # NoKey)
             => LET old == MemoryOf(agentMemory, key)
                    new == MemoryOf(agentMemory', key)
                IN  /\ DOMAIN new = DOMAIN old \cup DOMAIN updates
                    /\ \A k \in DOMAIN updates : new[k] = updates[k]
                    /\ \A k \in DOMAIN old \ DOMAIN updates : new[k] = old[k]
                    /\ \A other \in MemoryKeys \ {key} :
                          MemoryOf(agentMemory', other) = MemoryOf(agentMemory, other)
                    /\ (\A k \in DOMAIN updates : k \in DOMAIN old /\ old[k] = updates[k])
                       => new = old
                    /\ RoomsUntouched
       /\ \A key \in MemoryKeys :
             (MemoryGet(key) \/ \E updates \in MemoryBodies : MemoryPost(key, updates))
             => RoomsUntouched
       /\ \A q \in 1..MaxCalls :
             (Answers(q) /\ calls'[q].toolName = "remember.visit")
             => LET c == calls'[q]
                    key == MemoryKey(ExperienceId, c.actorId)
                    old == MemoryOf(agentMemory, key)
                    new == MemoryOf(agentMemory', key)
                IN  /\ c.status = 200
                    /\ new = Spread(old, c.body.output)
                    /\ \A k \in DOMAIN old \ {"visits"} : k \in DOMAIN new /\ new[k] = old[k]
                    /\ new.visits = Visits(old) + 1
                    /\ \A other \in MemoryKeys \ {key} :
                          MemoryOf(agentMemory', other) = MemoryOf(agentMemory, other)
                    /\ UNCHANGED <<rooms, sharedState, participants>>
      ]_vars

\* alice's memory holds a key merged through the endpoint next to the count
\* her handler merged
C23_Witness ==
    /\ MemoryOf(agentMemory, AliceKey) = [mood |-> "calm", visits |-> 1]
    /\ \E q \in CallIds : calls[q].toolName = "remember.visit" /\ calls[q].status = 200
    /\ \E i \in 1..Len(replies) :
          replies[i].request = "POST /memory" /\ replies[i].key = AliceKey
----------------------------------------------------------------------------
(* GET /rooms/:roomId, lines 168-178 *)

SNAPSHOT_EVENTS == 50

\* The body answered for a room with this state, participants and log
RoomBody(roomId, state, members, log) ==
    [roomId |-> roomId, experienceId |-> ExperienceId,
     sharedState |-> state,
     participants |-> MapKeys(members),
     events |-> SliceLast(log, SNAPSHOT_EVENTS)]

GetRoomBody(roomId) ==
    RoomBody(roomId, sharedState[roomId], participants[roomId], events[roomId])

GetRoom(roomId) ==
    /\ Len(replies) < MaxReplies
    /\ replies' = Append(replies,
                     IF roomId \in rooms
                     THEN [request |-> "GET /rooms/:roomId", roomId |-> roomId,
                           status |-> 200, body |-> GetRoomBody(roomId)]
                     ELSE [request |-> "GET /rooms/:roomId", roomId |-> roomId,
                           status |-> 404, body |-> [error |-> "Room not found"]])
    /\ UNCHANGED <<agentMemory, agent, issued, watchers, poller, now, experience,
                   rooms, sharedState, participants, events, actorCounters,
                   wsConnections, sockets, calls, tally>>

\* This step commits a successful invocation q
Commits(q) == Answers(q) /\ calls'[q].status = 200

(* C25: the notification of a state update is sent to exactly the          *)
(* subscribers of the room whose connection is open when the mutation      *)
(* commits; a subscriber that is closed or has not joined by then receives *)
(* nothing for that mutation, then or later: no step other than a commit   *)
(* delivers a state update, and a commit delivers only its own; the state  *)
(* the mutation left is what a snapshot fetch of the room answers.         *)
C25_NotifiesOpenSubscribers ==
    [][/\ \A w \in DOMAIN sockets :
             LET before == StateUpdates(sockets[w].inbox)
                 after == StateUpdates(sockets'[w].inbox)
             IN  \/ after = before
                 \/ \E q \in 1..MaxCalls :
                       /\ Commits(q)
                       /\ w \in OpenSubscribers(calls'[q].roomId)
                       /\ Len(after) = Len(before) + 1
                       /\ SubSeq(after, 1, Len(before)) = before
                       /\ Last(after).roomId = calls'[q].roomId
                       /\ Last(after).event.id = Last(calls'[q].eventIds)
                       /\ Last(after).state = sharedState'[calls'[q].roomId]
       /\ \A q \in 1..MaxCalls :
             Commits(q)
             => LET r == calls'[q].roomId
                IN  /\ \A w \in DOMAIN sockets :
                          w \in OpenSubscribers(r)
                          <=> Len(StateUpdates(sockets'[w].inbox))
                                 = Len(StateUpdates(sockets[w].inbox)) + 1
                    /\ LET body == RoomBody(r, sharedState'[r], participants'[r],
                                             events'[r])
                       IN  /\ \A w \in OpenSubscribers(r) :
                                 Len(sockets'[w].inbox) > 0
                                 /\ Last(sockets'[w].inbox).state = body.sharedState
                           /\ Last(body.events).id = Last(calls'[q].eventIds)
      ]_vars

\* A mutation of r1 committed while one viewer of r1 was open, another had
\* closed, and a third socket had joined the other room
C25_Witness ==
    \E w1, w2 \in DOMAIN sockets :
        /\ sockets[w1].joinedRoom = "r1" /\ sockets[w1].readyState = "OPEN"
        /\ Len(StateUpdates(sockets[w1].inbox)) = 1
        /\ sockets[w2].joinedRoom = "r1" /\ sockets[w2].readyState = "CLOSED"
        /\ StateUpdates(sockets[w2].inbox) = << >>
        /\ tally["r1"].succeeded = 1
----------------------------------------------------------------------------
\* The sockets of room r that are connected after the step
OpenSubscribersAfter(r) ==
    {w \in wsConnections'[r] : sockets'[w].readyState = "OPEN"}

\* This step sent each of them the participant list the step left
PresenceSent(r) ==
    \A w \in OpenSubscribersAfter(r) :
        /\ Len(sockets'[w].inbox) > Len(sockets[w].inbox)
        /\ Last(sockets'[w].inbox) =
              [type |-> "presence_update",
               participants |-> MapKeys(participants'[r])]

\* This step is a join of room r, over HTTP or over the push channel
JoinsRoom(r) == Len(issued'[r]) > Len(issued[r])

\* This step is an explicit leave that removes a participant of room r
LeavesRoom(r) == Len(participants'[r]) < Len(participants[r])

\* This step closes the push connection of a socket that joined room r
ClosesIn(r) ==
    \E w \in DOMAIN sockets :
        /\ sockets[w].joinedRoom = r
        /\ sockets[w].readyState = "OPEN"
        /\ sockets'[w].readyState = "CLOSED"

(* C26: every presence change, that is every join (over HTTP or over the   *)
(* push channel) and every leave (an explicit leave, or the push           *)
(* connection of a participant closing), makes the server send every       *)
(* subscriber of the room that is connected a presence_update carrying the *)
(* participant list after the change.                                      *)
C26_PresenceChangesAnnounced ==
    [][\A r \in rooms :
          (JoinsRoom(r) \/ LeavesRoom(r) \/ ClosesIn(r)) => PresenceSent(r)
      ]_vars
----------------------------------------------------------------------------
(* Loading the Experience: loadExperience (lines 85-123), called by        *)
(* POST /sync and by the watcher of the source file.  `experience` is      *)
(* assigned as soon as the bundle was evaluated, before the check for      *)
(* manifest and tools; a build or an evaluation that throws leaves it as   *)
(* it was.  The first load is awaited before the server listens.           *)

\* What the source file can hold: a whole Experience, a file that does not
\* build, a default export that is falsy, a module without tools, a module
\* without manifest
Sources == {"valid", "broken", "falsy", "noTools", "noManifest"}

loadExperience(source) ==
    CASE source = "valid" -> [experience |-> ExperienceId, threw |-> FALSE]
      [] source = "broken" -> [experience |-> experience, threw |-> TRUE]
      [] source = "falsy" -> [experience |-> "null", threw |-> TRUE]
      [] source = "noTools" -> [experience |-> NoTools, threw |-> TRUE]
      [] source = "noManifest" -> [experience |-> NoManifest, threw |-> TRUE]

\* for (const room of rooms.values()) broadcastToRoom(room, message)
broadcastToAllRooms(socks, message) ==
    [w \in DOMAIN socks |->
        IF socks[w].readyState = "OPEN"
        THEN [socks[w] EXCEPT !.inbox =
                 @ \o [i \in 1..Cardinality({r \in rooms : w \in wsConnections[r]})
                         |-> message]]
        ELSE socks[w]]

\* The reload both callers do, and the line each leaves: the answer of
\* POST /sync, or what the file watcher wrote to the console
Reload(request, source) ==
    LET load == loadExperience(source)
    IN  /\ Len(replies) < MaxReplies
        /\ experience' = load.experience
        /\ sockets' = IF load.threw THEN sockets
                      ELSE broadcastToAllRooms(sockets, [type |-> "experience_updated"])
        /\ replies' = Append(replies,
                         IF load.threw
                         THEN [request |-> request, status |-> 500,
                               body |-> [error |-> source]]
                         ELSE [request |-> request, status |-> 200,
                               body |-> [synced |-> TRUE]])
        /\ UNCHANGED <<agentMemory, agent, issued, watchers, poller, now, rooms,
                       sharedState, participants, events, actorCounters,
                       wsConnections, calls, tally>>

\* POST /sync
Sync(source) == Reload("POST /sync", source)

\* The debounced fs.watch callback of lines 454-467
FileChanged(source) == Reload("fs.watch", source)

\* POST /rooms answered 500: `experience` is falsy, or experience.manifest.id
\* throws
CreateRoomRefused ==
    /\ ~HasManifest(experience)
    /\ Len(replies) < MaxReplies
    /\ replies' = Append(replies,
                     [request |-> "POST /rooms", status |-> 500,
                      body |-> [error |-> IF Falsy(experience)
                                          THEN "Experience not loaded"
                                          ELSE "TypeError"]])
    /\ UNCHANGED <<agentMemory, agent, issued, watchers, poller, now, experience,
                   rooms, sharedState, participants, events, actorCounters,
                   wsConnections, sockets, calls, tally>>

(* SpecReload: the server after its first load.  The source file changes   *)
(* and is reloaded, by request or by the file watcher, while rooms are     *)
(* created, a viewer joins and tools are called.                           *)

ReloadTools == {"counter.increment", "counter.double"}

NextReload ==
    \/ \E source \in Sources : Sync(source)
    \/ \E source \in Sources : FileChanged(source)
    \/ CreateRoom("r1")
    \/ CreateRoomRefused
    \/ \E t \in ReloadTools :
          Len(calls) < MaxCalls - 1 /\ ExecuteTool("r1", t, Alice, CounterInput, "")
    \/ WsConnect("w1")
    \/ /\ "w1" \in DOMAIN sockets
       /\ sockets["w1"].joinedRoom = NoRoom
       /\ WsJoin("w1", "r1", "sam")

SpecReload == Init /\ [][NextReload]_vars

\* The loads attempted so far, oldest first
Loads == SelectSeq(replies, LAMBDA x : x.request \in {"POST /sync", "fs.watch"})

\* The latest load or reload attempt failed
LastLoadFailed == Loads # << >> /\ Last(Loads).status = 500

(* C27: while the Experience is not loaded, room creation and every tool   *)
(* invocation fail with the infrastructure-unavailable error and no        *)
(* handler runs; and once a load or reload attempt has failed this holds   *)
(* until a later reload succeeds.                                          *)
C27_BlockedUntilReloaded ==
    [][(Falsy(experience) \/ LastLoadFailed)
       => /\ rooms' = rooms
          /\ \A q \in 1..MaxCalls :
                (Arrives(q) /\ calls'[q].roomId \in rooms)
                => /\ calls'[q].status = 500
                   /\ calls'[q].body = [error |-> "Experience not loaded"]
                   /\ calls'[q].handlerCalls = 0
      ]_vars
----------------------------------------------------------------------------
\* The rooms Map in insertion order
RoomList == SelectSeq(IdOrder, LAMBDA id : id \in rooms)

\* GET /rooms, lines 384-392
ListRooms ==
    /\ Len(replies) < MaxReplies
    /\ replies' = Append(replies,
                     [request |-> "GET /rooms", status |-> 200,
                      body |-> [i \in 1..Len(RoomList) |->
                                   [roomId |-> RoomList[i],
                                    experienceId |-> ExperienceId,
                                    participants |-> MapKeys(participants[RoomList[i]]),
                                    eventCount |-> Len(events[RoomList[i]])]]])
    /\ UNCHANGED <<agentMemory, agent, issued, watchers, poller, now, experience,
                   rooms, sharedState, participants, events, actorCounters,
                   wsConnections, sockets, calls, tally>>

(* SpecFrame: every endpoint of the server and the push channel, on room   *)
(* r1: tools that set state and succeed or throw, joins and leaves,        *)
(* snapshot and list, the events endpoint answering at once or waiting,    *)
(* memory, reloads, and a viewer that connects, joins and closes.          *)

\* Requests and connections received so far
FrameArrivals == Arrivals + Len(replies) + Cardinality(DOMAIN sockets)

FrameTools == {"counter.increment", "fail.increment"}
FrameWaits == {NoQuery, Query(PollerTimeout)}

NextFrame ==
    \/ /\ FrameArrivals < MaxIssued
       /\ \/ \E t \in FrameTools : ExecuteTool("r1", t, Alice, CounterInput, "")
          \/ HttpJoin("r1", "sam", Undefined)
          \/ GetRoom("r1")
          \/ ListRooms
          \/ \E timeout \in FrameWaits : GetEvents("r1", NoQuery, timeout, FALSE)
          \/ MemoryGet(AliceKey)
          \/ MemoryPost(AliceKey, [mood |-> "calm"])
          \/ Sync("valid")
          \/ FileChanged("broken")
          \/ WsConnect("w1")
    \/ LeaveOn("r1")
    \/ /\ "w1" \in DOMAIN sockets
       /\ sockets["w1"].joinedRoom = NoRoom
       /\ WsJoin("w1", "r1", "sam")
    \/ WsClose("w1")
    \/ Elapse(POLL_INTERVAL)
    \/ \E w \in 1..MaxWatchers : PollFire(w)
    \/ \E w \in 1..MaxWatchers : WatchClose(w)

SpecFrame == InitPush /\ [][NextFrame]_vars

\* In this step the handler of call q called setState
SetStateCalled(q) ==
    /\ q \in 1..Len(calls')
    /\ Len(calls'[q].setStates)
          > (IF q <= Len(calls) THEN Len(calls[q].setStates) ELSE 0)

(* C28: tools are the only way to mutate shared state: room creation       *)
(* aside, a room's sharedState changes only in a step in which a tool      *)
(* handler called setState on that room, to the value it passed, and its   *)
(* event log changes only when the gate answers a call on that room; join, *)
(* leave, snapshot fetch, event fetch and watch, memory get and merge,     *)
(* list rooms, sync and reload, push join and push close leave the         *)
(* sharedState and the event log of every room unchanged.                  *)
C28_OnlyToolsMutate ==
    [][/\ \A r \in rooms :
             /\ sharedState'[r] # sharedState[r]
                => \E q \in 1..MaxCalls :
                      /\ SetStateCalled(q)
                      /\ calls'[q].roomId = r
                      /\ sharedState'[r] = Last(calls'[q].setStates)
             /\ events'[r] # events[r]
                => \E q \in 1..MaxCalls : Answers(q) /\ calls'[q].roomId = r
       /\ calls' = calls => UNCHANGED <<sharedState, events>>
      ]_vars

\* A tool set r1's count to 1, a viewer joined r1 over the push channel and
\* closed, and the state and the log are as the tool left them
C28_Witness ==
    /\ sharedState["r1"] = [count |-> 1]
    /\ Len(events["r1"]) = 1
    /\ Len(calls) = 1
    /\ Len(issued["r1"]) = 1
    /\ "w1" \in DOMAIN sockets /\ sockets["w1"].readyState = "CLOSED"
----------------------------------------------------------------------------
(* The watch tool of the MCP server, mcp.ts lines 135-230.  It awaits the  *)
(* snapshot fetch and the long-poll, so the server can do other work       *)
(* between its steps.                                                      *)

MaxResults == 2

\* No predicate given, and the predicate "state.count >= 1"
NoPredicate == ""
CountReached == "state.count >= 1"

\* A predicate that never holds
PredicateNever(predicate, body) == FALSE

\* new Function("state", "actorId", `return ${predicate}`)(body.sharedState):
\* whether it returned a truthy value.  On an answer without sharedState it
\* throws, which the tool catches.
PredicateHolds(predicate, body) ==
    /\ predicate = CountReached
    /\ "sharedState" \in DOMAIN body
    /\ "count" \in DOMAIN body.sharedState
    /\ body.sharedState.count >= 1

\* events.filter((e) => filter.includes(e[field])), when the filter is given
FilterBy(evs, field, filter) ==
    IF filter = {} THEN evs ELSE SelectSeq(evs, LAMBDA e : e[field] \in filter)

\* What GET /rooms/:rid answers at this moment
SnapshotAnswer(rid) ==
    IF rid \in rooms THEN GetRoomBody(rid) ELSE [error |-> "Room not found"]

\* The tool is called: up to the snapshot fetch and the first evaluation
AgentWatch(roomId, timeout, predicate, filterTools, filterActors) ==
    LET rid == IF roomId = NoRoom THEN agent.currentRoomId ELSE roomId
        t == Min(IF timeout = 0 THEN PollerTimeout ELSE timeout, MAX_TIMEOUT)
    IN  /\ agent.watch.phase = "idle"
        /\ Len(agent.results) < MaxResults
        /\ agent' =
              IF rid = NoRoom
              THEN [agent EXCEPT !.results =
                       Append(@, [tool |-> "watch", text |-> "No room ID"])]
              ELSE IF predicate # NoPredicate
                      /\ PredicateHolds(predicate, SnapshotAnswer(rid))
              THEN [agent EXCEPT !.results =
                       Append(@, [tool |-> "watch", text |-> "Predicate already true",
                                  predicate |-> predicate, polled |-> FALSE,
                                  state |-> SnapshotAnswer(rid).sharedState])]
              ELSE [agent EXCEPT !.watch =
                       [phase |-> "poll", roomId |-> rid, timeout |-> t,
                        predicate |-> predicate, filterTools |-> filterTools,
                        filterActors |-> filterActors]]
        /\ UNCHANGED <<agentMemory, replies, issued, watchers, poller, now,
                       experience, rooms, sharedState, participants, events,
                       actorCounters, wsConnections, sockets, calls, tally>>

\* The long-poll request reaches the server
AgentPoll ==
    /\ agent.watch.phase = "poll"
    /\ ~PollerWaiting
    /\ GetEvents(agent.watch.roomId, Query(poller.cursor),
                 Query(agent.watch.timeout), TRUE)

\* The long-poll was answered: filters, cursor, second evaluation, result
AgentWatchReturn(w) ==
    /\ agent.watch.phase = "poll"
    /\ w \in 1..Len(watchers)
    /\ watchers[w].client
    /\ ~watchers[w].consumed
    /\ watchers[w].sent > 0
    /\ LET data == watchers[w].body
           all == IF "events" \in DOMAIN data THEN data.events ELSE << >>
           evs == FilterBy(FilterBy(all, "tool", agent.watch.filterTools),
                           "actorId", agent.watch.filterActors)
       IN  /\ poller' = [cursor |-> IF Len(evs) > 0 THEN MaxTs(evs) ELSE poller.cursor,
                         seen |-> poller.seen \o [i \in 1..Len(evs) |-> evs[i].id]]
           /\ agent' = [agent EXCEPT
                 !.watch = NoWatch,
                 !.results =
                    Append(@, [tool |-> "watch",
                               text |-> IF Len(evs) > 0 THEN "event(s)"
                                        ELSE "No new events (timeout).",
                               predicate |-> agent.watch.predicate, polled |-> TRUE,
                               events |-> [i \in 1..Len(evs) |-> evs[i].id],
                               predicateMatched |->
                                  /\ agent.watch.predicate # NoPredicate
                                  /\ PredicateHolds(agent.watch.predicate, data)])]
    /\ watchers' = [watchers EXCEPT ![w].consumed = TRUE]
    /\ UNCHANGED <<agentMemory, replies, issued, now, experience, rooms,
                   sharedState, participants, events, actorCounters,
                   wsConnections, sockets, calls, tally>>

(* SpecAgent: the agent watches room r1, with and without a predicate,     *)
(* while alice calls tools on r1, one of which sets the state and then     *)
(* awaits, and time passes.                                                *)

AgentTools == {"counter.increment", "notify.increment"}

NextAgent ==
    \/ \E predicate \in {NoPredicate, CountReached} :
          AgentWatch("r1", 0, predicate, {}, {})
    \/ AgentPoll
    \/ \E w \in 1..MaxWatchers : AgentWatchReturn(w)
    \/ \E t \in AgentTools :
          Len(calls) < MaxCalls - 1 /\ ExecuteTool("r1", t, Alice, CounterInput, "")
    \/ \E q \in 1..MaxCalls : ResumeHandler(q)
    \/ \E d \in {POLL_INTERVAL, MAX_TIMEOUT} : Elapse(d)
    \/ \E w \in 1..MaxWatchers : PollFire(w)

SpecAgent == InitPush /\ [][NextAgent]_vars

\* state.count >= 1, read off a state
CountIsReached(state) == "count" \in DOMAIN state /\ state.count >= 1

\* This step answers watcher w
WatcherAnswered(w) ==
    /\ w \in 1..Len(watchers')
    /\ watchers'[w].sent = 1
    /\ (w > Len(watchers) \/ watchers[w].sent = 0)

(* C29: the watch tool of the agent evaluates a predicate it was given     *)
(* once against the room's current state before polling, and returns at    *)
(* once, without issuing the long-poll, if it holds; otherwise it issues   *)
(* the long-poll and evaluates the predicate once more, against the state  *)
(* the long-poll returned.  The events endpoint answers only when there    *)
(* are events past the cursor or the timeout has passed, whatever the      *)
(* state is: it evaluates no predicate.                                    *)
C29_PredicateAboveWatcher ==
    [][/\ \A predicate \in {NoPredicate, CountReached} :
             AgentWatch("r1", 0, predicate, {}, {})
             => IF predicate = CountReached /\ CountIsReached(sharedState["r1"])
                THEN /\ Len(agent'.results) = Len(agent.results) + 1
                     /\ ~Last(agent'.results).polled
                     /\ Last(agent'.results).state = sharedState["r1"]
                     /\ agent'.watch = NoWatch
                     /\ watchers' = watchers
                ELSE /\ agent'.results = agent.results
                     /\ agent'.watch.phase = "poll"
                     /\ agent'.watch.predicate = predicate
       /\ \A w \in 1..MaxWatchers :
             AgentWatchReturn(w)
             => /\ Len(agent'.results) = Len(agent.results) + 1
                /\ Last(agent'.results).polled
                /\ Last(agent'.results).predicateMatched
                      = /\ agent.watch.predicate = CountReached
                        /\ CountIsReached(watchers[w].body.sharedState)
       /\ \A w \in 1..MaxWatchers :
             (WatcherAnswered(w) /\ watchers'[w].status = 200)
             => \/ watchers'[w].body.events # << >>
                \/ now - watchers'[w].start >= watchers'[w].timeout
       /\ Len(watchers') > Len(watchers) => agent.watch.phase = "poll"
      ]_vars

\* One watch polled and found its predicate true in the long-poll's state;
\* the next found it true at once and did not poll
C29_Witness ==
    /\ Len(agent.results) = 2
    /\ agent.results[1].polled /\ agent.results[1].predicateMatched
    /\ agent.results[2].predicate = CountReached /\ ~agent.results[2].polled
    /\ Len(watchers) = 1

----------------------------------------------------------------------------
(* The room tool of the MCP server, action open: mcp.ts lines 72-101.  It  *)
(* awaits POST /rooms, then POST /rooms/:roomId/join.                      *)

Claude == "claude"

\* fetchJSON("/rooms", { method: "POST" }) and what the tool does with the
\* answer
AgentOpenCreate ==
    /\ agent.opening = NoRoom
    /\ Len(agent.results) < MaxResults
    /\ IF HasManifest(experience)
       THEN \E roomId \in RoomIds :
               /\ PostRooms(roomId)
               /\ agent' = [agent EXCEPT !.opening = roomId]
       ELSE /\ agent' = [agent EXCEPT !.results =
                            Append(@, [tool |-> "room", action |-> "open",
                                       text |-> "Error"])]
            /\ UNCHANGED <<agentMemory, replies, issued, watchers, poller, now,
                           experience, rooms, sharedState, participants, events,
                           actorCounters, wsConnections, sockets, calls, tally>>

\* fetchJSON(`/rooms/${room.roomId}/join`, ...) and lines 86-88
AgentOpenJoin ==
    LET roomId == agent.opening
    IN  /\ roomId # NoRoom
        /\ PostJoin(roomId, Claude, "ai")
        /\ LET actorId == assignActorId(actorCounters[roomId], Claude, "ai").actorId
           IN  agent' = [agent EXCEPT
                  !.currentRoomId = roomId,
                  !.currentActorId = actorId,
                  !.opening = NoRoom,
                  !.results = Append(@, [tool |-> "room", action |-> "open",
                                         text |-> "Joined room",
                                         roomId |-> roomId, actorId |-> actorId])]
        /\ poller' = [poller EXCEPT !.cursor = now]

(* SpecOpen: the server after its first load, no room yet.  A browser      *)
(* creates rooms and opens them over the push channel, and the agent       *)
(* opens a room, while time passes.                                        *)

NextOpen ==
    \/ Tick
    \/ \E r \in RoomIds : CreateRoom(r)
    \/ \E w \in WsIds : WsConnect(w)
    \/ \E w \in WsIds, r \in RoomIds :
          /\ w \in DOMAIN sockets
          /\ sockets[w].joinedRoom = NoRoom
          /\ WsJoin(w, r, "")
    \/ \E w \in WsIds : WsClose(w)
    \/ AgentOpenCreate
    \/ AgentOpenJoin

SpecOpen == Init /\ [][NextOpen]_vars

\* The rooms a browser has open
ActiveRooms == {r \in rooms : OpenSubscribers(r) # {}}

(* C30: the agent's connect joins the room that is already active, the one *)
(* the browser has open, whenever there is one, and creates a room only    *)
(* when there is none, so that afterwards the agent and the browser are    *)
(* participants of the same room.                                          *)
C30_ConnectJoinsActiveRoom ==
    [][/\ (agent'.opening # agent.opening /\ agent'.opening # NoRoom)
          => (ActiveRooms # {} => rooms' = rooms)
       /\ agent'.currentRoomId # agent.currentRoomId
          => (ActiveRooms # {} => agent'.currentRoomId \in ActiveRooms)
      ]_vars
----------------------------------------------------------------------------
(* C31: a room's sharedState changes only together with the append of a    *)
(* success event, so no reader sees a state written by a handler that is   *)
(* still in flight or that failed afterwards; an invocation whose handler  *)
(* called setState and then threw leaves sharedState as it was before the  *)
(* invocation.                                                             *)
C31_StateChangesWithSuccessEvent ==
    [][\A r \in rooms :
          /\ sharedState'[r] # sharedState[r]
             => /\ tally'[r].succeeded = tally[r].succeeded + 1
                /\ Len(events'[r]) > 0
                /\ IsSuccessEvent(Last(events'[r]))
          /\ \A q \in 1..MaxCalls :
                (Answers(q) /\ calls'[q].roomId = r /\ calls'[q].status = 400)
                => sharedState'[r] = sharedState[r]
      ]_vars
----------------------------------------------------------------------------
(* SpecOwner: alice calls tools on r1, with and without an owner in the     *)
(* request body, with inputs that carry a key the tool's schema does not    *)
(* declare.                                                                *)

Noted == [note |-> "hi"]
RedWithNote == [x |-> 0, y |-> 0, color |-> "#ff0000", note |-> "hi"]
Team == "team"

OwnerTools == {"counter.increment", "pixel.place", "fail.increment"}

OwnerInputs(toolName) ==
    IF toolName = "pixel.place" THEN {RedAtOrigin, RedWithNote, RedOffGrid}
    ELSE {CounterInput, Noted}

NextOwner ==
    \E t \in OwnerTools, owner \in {"", Team} : \E i \in OwnerInputs(t) :
        ExecuteTool("r1", t, Alice, i, owner)

SpecOwner == InitPush /\ [][NextOwner]_vars

\* The call that pushed event e to room r's log
PushedBy(r, e) ==
    {q \in 1..Len(calls) :
        /\ calls[q].roomId = r
        /\ \E k \in 1..Len(calls[q].eventIds) : calls[q].eventIds[k] = e.id}

\* The owner the request named, or the username at the head of its actor id
OwnerOfRequest(c) == IF c.owner # "" THEN c.owner ELSE c.actorId[1]

(* C32 as stated: every event of a log, success or failure, carries the     *)
(* owner of its request (the owner supplied, else the username prefix of   *)
(* the actor id) and the input as the schema returned it.                  *)
C32_EveryEventCarriesOwner ==
    \A r \in rooms : \A e \in LogEvents(events[r]) : \A q \in PushedBy(r, e) :
        /\ "owner" \in DOMAIN e
        /\ e.owner = OwnerOfRequest(calls[q])
        /\ e.input = SchemaParse(calls[q].toolName, calls[q].input)

(* C32, amended: every success event carries the owner of its request and  *)
(* the input as the schema returned it; a failure event carries no owner   *)
(* and the input as the request sent it.                                   *)
C32_SuccessEventsCarryOwner ==
    \A r \in rooms : \A e \in LogEvents(events[r]) : \A q \in PushedBy(r, e) :
        /\ IsSuccessEvent(e)
           => /\ "owner" \in DOMAIN e
              /\ e.owner = OwnerOfRequest(calls[q])
              /\ e.input = SchemaParse(calls[q].toolName, calls[q].input)
        /\ IsFailureEvent(e)
           => /\ "owner" \notin DOMAIN e
              /\ e.input = calls[q].input

C32_Witness ==
    \E e, f \in LogEvents(events["r1"]) :
        /\ IsSuccessEvent(e) /\ e.owner = Team /\ e.tool = "counter.increment"
        /\ e.input = EmptyObject
        /\ \E q \in PushedBy("r1", e) : calls[q].input = Noted
        /\ IsFailureEvent(f) /\ f.tool = "fail.increment" /\ f.input = Noted
----------------------------------------------------------------------------
(* SpecPixel: alice draws on the canvas of r1 with pixel.place,             *)
(* pixel.place_batch and pixel.clear while time passes.  No handler of the *)
(* canvas awaits, so the calls run one at a time.                          *)

GreenAtCorner == [x |-> GRID_MAX, y |-> GRID_MAX, color |-> "#00ff00"]

\* n green cells of row 1, left to right
GreenRow(n) ==
    [placements |-> [k \in 1..n |-> [x |-> k - 1, y |-> 1, color |-> "#00ff00"]]]

\* The same cell twice in one batch
TwiceOnOrigin ==
    [placements |-> <<RedAtOrigin, [x |-> 0, y |-> 0, color |-> "#00ff00"]>>]

PixelRequests ==
    ({"pixel.place"} \X {RedAtOrigin, GreenAtCorner, RedOffGrid})
       \cup ({"pixel.place_batch"}
                \X {TwiceOnOrigin, GreenRow(RECENT_CAP + 1), GreenRow(BATCH_MAX + 1)})
       \cup ({"pixel.clear"} \X {CounterInput})

NextPixel ==
    \/ Tick
    \/ \E x \in PixelRequests : ExecuteTool("r1", x[1], Alice, x[2], "")

SpecPixel == InitPush /\ [][NextPixel]_vars

\* The canvas fields of a state agree with each other
CanvasConsistent(state) ==
    state # EmptyObject
    => /\ {"pixels", "recentPlacements", "pixelCount"} \subseteq DOMAIN state
       /\ state.pixelCount = Cardinality(DOMAIN state.pixels)
       /\ \A key \in DOMAIN state.pixels :
             /\ Len(key) = 2
             /\ key[1] \in 0..GRID_MAX
             /\ key[2] \in 0..GRID_MAX
       /\ Len(state.recentPlacements) <= 20
       /\ \A j, k \in 1..Len(state.recentPlacements) :
             j < k => state.recentPlacements[j].ts >= state.recentPlacements[k].ts

(* C39: after any sequence of successful pixel.place, pixel.place_batch and *)
(* pixel.clear, pixelCount is the number of keys of pixels, every key is a  *)
(* cell "x,y" with 0 <= x, y <= 63, recentPlacements holds at most 20       *)
(* entries, newest timestamp first (the entries of one batch share one     *)
(* timestamp and keep the order of the batch); a successful pixel.clear    *)
(* leaves pixels empty, recentPlacements empty and pixelCount 0.           *)
C39_CanvasConsistent ==
    [][\A r \in rooms :
          /\ CanvasConsistent(sharedState'[r])
          /\ \A q \in 1..MaxCalls :
                (/\ Answers(q)
                 /\ calls'[q].roomId = r
                 /\ calls'[q].toolName = "pixel.clear"
                 /\ calls'[q].status = 200)
                => /\ sharedState'[r].pixels = EmptyObject
                   /\ sharedState'[r].recentPlacements = << >>
                   /\ sharedState'[r].pixelCount = 0
      ]_vars

C39_Witness ==
    /\ Len(calls) = 2
    /\ calls[1].toolName = "pixel.place_batch" /\ calls[1].status = 200
    /\ calls[1].input = GreenRow(RECENT_CAP + 1)
    /\ calls[2].toolName = "pixel.clear" /\ calls[2].status = 200
    /\ sharedState["r1"].pixelCount = 0
    /\ Len(events["r1"]) = 2
    /\ Last(events["r1"]).ts > events["r1"][1].ts
----------------------------------------------------------------------------
(* SpecRegion: viewers connect, join r1 and go away while alice places a    *)
(* pixel on r1 and reads regions of its canvas.                            *)

WholeGrid == [x1 |-> 0, y1 |-> 0, x2 |-> GRID_MAX, y2 |-> GRID_MAX]
\* Right edge left of the left edge: an empty rectangle
InsideOut == [x1 |-> 5, y1 |-> 0, x2 |-> 0, y2 |-> 0]
BeyondGrid == [x1 |-> 0, y1 |-> 0, x2 |-> GRID_MAX + 1, y2 |-> 0]

RegionRequests ==
    ({"pixel.place"} \X {RedAtOrigin})
       \cup ({"pixel.get_region"} \X {WholeGrid, InsideOut, BeyondGrid})

NextRegion ==
    \/ \E x \in RegionRequests : ExecuteTool("r1", x[1], Alice, x[2], "")
    \/ \E w \in WsIds : WsConnect(w)
    \/ \E w \in WsIds :
          /\ w \in DOMAIN sockets
          /\ sockets[w].joinedRoom = NoRoom
          /\ WsJoin(w, "r1", "sam")
    \/ \E w \in WsIds : WsClose(w)

SpecRegion == InitPush /\ [][NextRegion]_vars

\* The tools whose handler holds no call of ctx.setState
ReadOnlyTools == {"pixel.get_region"}

\* Call q, of such a tool, answers 200 in this step
ReadOnlyCallSucceeds(q) ==
    /\ Answers(q)
    /\ calls'[q].status = 200
    /\ calls'[q].toolName \in ReadOnlyTools

(* C33: a successful invocation whose handler never calls setState (such   *)
(* as pixel.get_region) leaves the room's sharedState identical, yet       *)
(* appends exactly one success event to the log and sends exactly one      *)
(* shared_state_update, carrying that state and that event, to each        *)
(* connected subscriber of the room and to nobody else.                    *)
C33_ReadOnlyCallStillRecorded ==
    [][\A q \in 1..MaxCalls :
          ReadOnlyCallSucceeds(q)
          => LET r == calls'[q].roomId
             IN  /\ calls'[q].setStates = << >>
                 /\ sharedState'[r] = sharedState[r]
                 /\ Len(events'[r]) = Len(events[r]) + 1
                 /\ SubSeq(events'[r], 1, Len(events[r])) = events[r]
                 /\ IsSuccessEvent(Last(events'[r]))
                 /\ Last(events'[r]).tool = calls'[q].toolName
                 /\ \A w \in DOMAIN sockets :
                       IF w \in wsConnections[r] /\ sockets[w].readyState = "OPEN"
                       THEN /\ Len(sockets'[w].inbox) = Len(sockets[w].inbox) + 1
                            /\ SubSeq(sockets'[w].inbox, 1, Len(sockets[w].inbox))
                                  = sockets[w].inbox
                            /\ Last(sockets'[w].inbox).type = "shared_state_update"
                            /\ Last(sockets'[w].inbox).state = sharedState[r]
                            /\ Last(sockets'[w].inbox).event = Last(events'[r])
                       ELSE sockets'[w] = sockets[w]
      ]_vars

\* pixel.get_region answered after a pixel was placed, with one viewer
\* connected and one gone
C33_Witness ==
    /\ Len(calls) = 2
    /\ calls[1].toolName = "pixel.place" /\ calls[1].status = 200
    /\ calls[2].toolName = "pixel.get_region" /\ calls[2].status = 200
    /\ calls[2].body.output.filledCount = 1
    /\ sharedState["r1"].pixelCount = 1
    /\ Len(events["r1"]) = 2
    /\ \E w, v \in wsConnections["r1"] \cup {x \in DOMAIN sockets : sockets[x].joinedRoom = "r1"} :
          /\ sockets[w].readyState = "OPEN"
          /\ Len(StateUpdates(sockets[w].inbox)) = 2
          /\ Last(StateUpdates(sockets[w].inbox)).tool = "pixel.get_region"
          /\ sockets[v].readyState = "CLOSED"
          /\ Len(StateUpdates(sockets[v].inbox)) = 1
----------------------------------------------------------------------------
\* The actor ids the server allocated for joins sent over socket w, each with
\* its room, as the "joined" messages on w told the viewer
AllocatedFor(w) ==
    {<<sockets[w].inbox[k].roomId, sockets[w].inbox[k].actorId>> :
        k \in {j \in 1..Len(sockets[w].inbox) : sockets[w].inbox[j].type = "joined"}}

IsParticipant(r, actorId) ==
    \E i \in 1..Len(participants[r]) : participants[r][i].key = actorId

(* C34: participants contain only actors that are present: once a push     *)
(* connection has closed, no actor id allocated for that connection is     *)
(* among the participants of its room.                                     *)
C34_ClosedViewersRemoved ==
    \A w \in DOMAIN sockets :
        sockets[w].readyState = "CLOSED"
        => \A a \in AllocatedFor(w) : ~IsParticipant(a[1], a[2])
----------------------------------------------------------------------------
(* SpecRejoin: viewers connect, send join messages as often and for         *)
(* whatever room they like, and go away.                                   *)

NextRejoin ==
    \/ \E w \in WsIds : WsConnect(w)
    \/ \E w \in WsIds, r \in RoomIds :
          /\ IssuedCount < MaxIssued
          /\ WsJoin(w, r, "sam")
    \/ \E w \in WsIds : WsClose(w)

SpecRejoin == InitPush /\ [][NextRejoin]_vars

(* C35: after a push connection has closed it is a member of no room's     *)
(* subscriber set, whatever join messages it sent (a second join for the   *)
(* same room, or joins for two rooms); and a connection contributes at     *)
(* most one participant identity to a room.                                *)
C35_ClosedInNoSubscriberSet ==
    \A w \in DOMAIN sockets :
        /\ sockets[w].readyState = "CLOSED"
           => \A r \in rooms : w \notin wsConnections[r]
        /\ \A r \in rooms :
              Cardinality({a \in AllocatedFor(w) : a[1] = r}) <= 1
----------------------------------------------------------------------------
(* SpecFilter: the agent watches room r1, with and without a filter on the  *)
(* tools and on the actors of the events, while alice calls counter tools  *)
(* on r1 and time passes.                                                  *)

FilterSets == {<<{}, {}>>, <<{"counter.reset"}, {}>>, <<{}, {<<"bob", "human", "1">>}>>}

NextFilter ==
    \/ \E f \in FilterSets : AgentWatch("r1", 0, NoPredicate, f[1], f[2])
    \/ AgentPoll
    \/ \E w \in 1..MaxWatchers : AgentWatchReturn(w)
    \/ \E t \in {"counter.increment", "counter.reset"} :
          ExecuteTool("r1", t, Alice, CounterInput, "")
    \/ \E d \in {POLL_INTERVAL, MAX_TIMEOUT} : Elapse(d)
    \/ \E w \in 1..MaxWatchers : PollFire(w)

SpecFilter == InitPush /\ [][NextFilter]_vars

\* The events the server returned to the long-poll of watcher w
ReturnedEvents(w) ==
    IF "events" \in DOMAIN watchers[w].body THEN watchers[w].body.events ELSE << >>

(* C36: when a watch call of the agent returns, its cursor is at or past   *)
(* the timestamp of every event the server returned for that call, also    *)
(* when filterTools or filterActors discarded some or all of them, so that *)
(* the next watch does not fetch the same events again.                    *)
C36_CursorPastReturnedEvents ==
    [][\A w \in 1..MaxWatchers :
          AgentWatchReturn(w)
          => \A k \in 1..Len(ReturnedEvents(w)) :
                poller'.cursor >= ReturnedEvents(w)[k].ts
      ]_vars
----------------------------------------------------------------------------
(* The agent's `act` and `memory` tools (mcp.ts lines 234-313).  Each sends *)
(* the server one request built from currentRoomId and currentActorId; the *)
(* text it returns to the model is the answer of that request.             *)

\* currentRoomId && currentActorId ? `${currentRoomId}:${currentActorId}` : "default"
AgentMemoryKey(ag) ==
    IF ag.currentRoomId # "null" /\ ag.currentActorId # "null"
    THEN MemoryKey(ag.currentRoomId, ag.currentActorId)
    ELSE <<"default">>

\* memory get
AgentMemoryGet == MemoryGet(AgentMemoryKey(agent))

\* memory set; without updates the tool sends nothing
AgentMemorySet(updates) ==
    /\ updates # EmptyObject
    /\ MemoryPost(AgentMemoryKey(agent), updates)

\* act: the tool call is sent as the agent's actor, without an owner
AgentAct(roomId, toolName, input) ==
    LET rid == IF roomId = NoRoom THEN agent.currentRoomId ELSE roomId
    IN  /\ rid # NoRoom
        /\ agent.currentActorId # "null"
        /\ ExecuteTool(rid, toolName, agent.currentActorId, input, "")

(* SpecRecall: the agent opens rooms, merges into its memory and reads it  *)
(* with the memory tool, and calls the tool that counts its visits in      *)
(* ctx.memory.                                                             *)

RecallUpdates == {[visits |-> 5], [mood |-> "calm"]}

NextRecall ==
    \/ AgentOpenCreate
    \/ AgentOpenJoin
    \/ AgentMemoryGet
    \/ \E updates \in RecallUpdates : AgentMemorySet(updates)
    \/ AgentAct(NoRoom, "remember.visit", CounterInput)

SpecRecall == Init /\ [][NextRecall]_vars

\* Call q arrives in this step as a call of the agent in its current room
AgentCallArrives(q) ==
    /\ Arrives(q)
    /\ agent.currentRoomId # NoRoom
    /\ calls'[q].roomId = agent.currentRoomId
    /\ calls'[q].actorId = agent.currentActorId

(* C37: the memory the agent writes with the memory tool is the memory its *)
(* handlers read: an invocation by the agent in its room is given as       *)
(* ctx.memory what the memory tool holds for the agent at that moment, and *)
(* what the handler stores with setMemory is what the agent's memory get   *)
(* returns afterwards.                                                     *)
C37_ToolMemoryIsHandlerMemory ==
    [][\A q \in 1..MaxCalls :
          AgentCallArrives(q)
          => /\ calls'[q].ctx.memory = MemoryOf(agentMemory, AgentMemoryKey(agent))
             /\ calls'[q].status = 200
                => LET got == MemoryOf(agentMemory', AgentMemoryKey(agent))
                   IN  /\ "visits" \in DOMAIN got
                       /\ got.visits = calls'[q].body.output.visits
      ]_vars
----------------------------------------------------------------------------
\* The actor id every room gives the agent's first join
ClaudeFirst == <<Claude, "ai", "1">>

\* The ctx.memory the gate would hand actor `actorId` calling a tool in `roomId`
CtxMemory(roomId, actorId) ==
    BuildCtx([roomId |-> roomId, actorId |-> actorId, owner |-> ""]).memory

(* C38: the memory a handler sees is scoped to one actor of one room: a     *)
(* call by actor A in room R1, whatever its handler passes to setMemory,   *)
(* leaves unchanged the ctx.memory given to the same actor-id string A in  *)
(* any other room R2.                                                      *)
C38_MemoryScopedToRoom ==
    [][\A q \in 1..MaxCalls : \A r2 \in rooms :
          (/\ Arrives(q)
           /\ calls'[q].actorId = ClaudeFirst
           /\ calls'[q].roomId # r2)
          => CtxMemory(r2, ClaudeFirst)' = CtxMemory(r2, ClaudeFirst)
      ]_vars
====
